---- MODULE Spec2Model ----
(***************************************************************************)
(* Model of the proxy's request path: the credential check (src/auth.go),  *)
(* the global limiter (src/main.go, src/proxy.go), the retry loop of       *)
(* forwardOAMap and its streaming translation loop (src/proxy.go), which   *)
(* turns an OpenAI-compatible SSE stream into the Anthropic event sequence.*)
(*                                                                         *)
(* Strings are sequences of one-character strings, so that strings.Index,  *)
(* slicing and the 20-byte look-back are computed as the code computes     *)
(* them.  Events are modelled at the level of their decoded JSON payload.  *)
(***************************************************************************)
EXTENDS Integers, Sequences, FiniteSets, TLC

VARIABLES
    startedMessage,     \* proxy.go:231
    lastUsage,          \* proxy.go:232
    currentBlockType,   \* proxy.go:235  "", "thinking", "text", "tool_use"
    currentBlockIdx,    \* proxy.go:236
    hasToolUse,         \* proxy.go:237
    contentBuffer,      \* proxy.go:240
    currentToolIndex,   \* proxy.go:243
    w,                  \* events written to the client response, in order
    pc,                 \* position of the read loop: "reading", "done", "closed"
    inp,                \* lines read from the upstream body so far
    marks               \* Len(w) after each line of inp was handled

\* the retry loop and the terminal response of forwardOAMap
VARIABLES
    dpc,                \* position of the dispatcher: "limit", "select",
                        \* "marshal", "attempt", "backoff", "body",
                        \* "streaming", "returned", "panic"
    loopI,              \* proxy.go:81  i, the counter of the retry loop
    resp,               \* proxy.go:78  the response of the last HttpClient.Do
    posts,              \* outcomes of the upstream POSTs issued so far
    stream,             \* proxy.go:42  parameter stream
    canceled,           \* r.Context() is done
    clientStatus,       \* status line of the client response, 0: none written
    clientCtype,        \* Content-Type header of the client response
    clientBody,         \* body written to the client outside the event stream
    bodies,             \* per POST, its response body: "none", "open", "closed"
    sent,               \* per POST, the request body that was sent
    byteBuf,            \* proxy.go:68  contents of the pooled buffer
    bufGets,            \* calls of bufferPool.Get by this request
    bufPuts,            \* calls of bufferPool.Put by this request
    defers,             \* deferred calls registered so far, in order
    upstreamErrors,     \* metrics.UpstreamErrors
    token,              \* the request received a token from the limiter
    buffered            \* lines held by the bufio reader when the client left

\* which main() the binary was built from: src/main.go or src/unnamed/part_002
VARIABLE build

\* credentials and per-credential limiters (src/auth.go)
VARIABLES
    apiKeys,            \* auth.go:18   token -> APIKeyConfig
    keyLimiters,        \* auth.go:20   token -> RateLimiter
    now,                \* time.Now(), in milliseconds since the process started
    reqPc,              \* position of the request in the handler chain: "idle",
                        \* "mwAllow", "mwAllowLast", "handler", "hAllow",
                        \* "admitted", "answered"
    reqKey,             \* the bearer token of the request
    authStatus,         \* status written by the authentication step, 0: none
    lastCall,           \* the last call of validateAPIKey and what it did
    rateLimitedCount,   \* metrics.go:21  metrics.RateLimitedCount
    rateLimitRejections \* requests turned away because a bucket was empty

\* the global limiter (src/main.go, src/unnamed/part_002, src/proxy.go)
VARIABLES
    rateLimitEnabled,   \* proxy.go:32
    configRateLimit,    \* main.go:29   config.RateLimit
    configAPIKey,       \* main.go:30   config.APIKey
    chans,              \* the token channels made so far, with their refillers
    limiter,            \* proxy.go:31  index into chans, 0: nil
    lpc,                \* position of the request at the rate limit check:
                        \* "idle", "waiting", "admitted", "rejected"
    waitCh,             \* the channel the waiting request receives from
    lastOp              \* the last step taken on the limiter

\* the pure functions of the request and response translation
VARIABLES
    fnArg,              \* the function applied and its arguments
    fnDone,             \* the function has returned
    fnResult            \* what it returned

\* concurrent calls of validateAPIKey for one credential (src/auth.go)
VARIABLES
    callers,            \* per calling goroutine: where it is, the limiter it
                        \* was handed, and what Allow returned
    limiterObjs,        \* the RateLimiter objects allocated so far
    keyPtrs,            \* auth.go:20  keyLimiters as token -> object
    allowLog            \* the calls of Allow that returned, in order

streamVars == <<startedMessage, lastUsage, currentBlockType, currentBlockIdx,
                hasToolUse, contentBuffer, currentToolIndex, w, pc, inp, marks>>

dispatchVars == <<dpc, loopI, resp, posts, stream, canceled,
                  clientStatus, clientCtype, clientBody, bodies, sent, byteBuf,
                  bufGets, bufPuts, defers, upstreamErrors, token, buffered>>

authVars == <<apiKeys, keyLimiters, now, reqPc, reqKey, authStatus, lastCall,
              rateLimitedCount, rateLimitRejections>>

limiterVars == <<rateLimitEnabled, configRateLimit, configAPIKey, chans, limiter, lpc, waitCh,
                 lastOp>>

serverVars == <<build, authVars, limiterVars>>

translateVars == <<fnArg, fnDone, fnResult>>

raceVars == <<callers, limiterObjs, keyPtrs, allowLog>>

vars == <<streamVars, dispatchVars, serverVars, translateVars, raceVars>>

----------------------------------------------------------------------------
(* Bounds *)

\* number of upstream lines read before [DONE] or a read error
MaxLines == 3

\* number of content fragments in the chunk-splitting specification
MaxFrags == 4

----------------------------------------------------------------------------
(* Strings *)

Min(S) == CHOOSE x \in S : \A y \in S : x <= y
Max(S) == CHOOSE x \in S : \A y \in S : x >= y

\* Go s[a:b]
Slice(s, a, b) == SubSeq(s, a + 1, b)

\* strings.Index: byte offset of the first occurrence of pat in s, or -1
Index(s, pat) ==
    LET hits == {i \in 0..(Len(s) - Len(pat)) : Slice(s, i, i + Len(pat)) = pat}
    IN  IF hits = {} THEN -1 ELSE Min(hits)

\* strings.LastIndexByte
LastIndexByte(s, ch) ==
    LET hits == {i \in 0..(Len(s) - 1) : s[i + 1] = ch}
    IN  IF hits = {} THEN -1 ELSE Max(hits)

\* strings.Contains(s, "<")
ContainsByte(s, ch) == \E i \in 1..Len(s) : s[i] = ch

ThinkOpen  == <<"<", "t", "h", "i", "n", "k", ">">>
ThinkClose == <<"<", "/", "t", "h", "i", "n", "k", ">">>

\* the look-back window of the safe partial check
Window == 20

RECURSIVE Repeat(_, _)
Repeat(ch, n) == IF n = 0 THEN <<>> ELSE <<ch>> \o Repeat(ch, n - 1)

RECURSIVE Flatten(_)
Flatten(ss) == IF ss = <<>> THEN <<>> ELSE Head(ss) \o Flatten(Tail(ss))

----------------------------------------------------------------------------
(* Events written to the client *)

EvBase == [type |-> "", index |-> -1, kind |-> "", text |-> <<>>,
           id |-> "", name |-> "", input_tokens |-> 0, output_tokens |-> 0]

EvMessageStart(usage) ==
    [EvBase EXCEPT !.type = "message_start",
                   !.input_tokens = usage.input, !.output_tokens = usage.output]

EvBlockStart(idx, btype) ==
    [EvBase EXCEPT !.type = "content_block_start", !.index = idx, !.kind = btype]

EvToolStart(idx, id, name) ==
    [EvBase EXCEPT !.type = "content_block_start", !.index = idx,
                   !.kind = "tool_use", !.id = id, !.name = name]

EvDelta(idx, dtype, text) ==
    [EvBase EXCEPT !.type = "content_block_delta", !.index = idx,
                   !.kind = dtype, !.text = text]

EvBlockStop(idx) ==
    [EvBase EXCEPT !.type = "content_block_stop", !.index = idx]

EvMessageDelta(stopReason, out) ==
    [EvBase EXCEPT !.type = "message_delta", !.kind = stopReason,
                   !.output_tokens = out]

EvMessageStop == [EvBase EXCEPT !.type = "message_stop"]

----------------------------------------------------------------------------
(* The FSM as a reducer over a record of the loop's local variables *)

InitState ==
    [startedMessage   |-> FALSE,
     lastUsage        |-> [input |-> 0, output |-> 0],
     currentBlockType |-> "",
     currentBlockIdx  |-> -1,
     hasToolUse       |-> FALSE,
     contentBuffer    |-> <<>>,
     currentToolIndex |-> -1,
     w                |-> <<>>]

Write(s, ev) == [s EXCEPT !.w = Append(@, ev)]

\* emitDelta that opens the on-demand text block without advancing the index
emitDelta_noIncrement(s, text) ==
    IF text = <<>> THEN s
    ELSE LET s1 == IF s.currentBlockType = ""
                   THEN Write([s EXCEPT !.currentBlockType = "text"],
                              EvBlockStart(s.currentBlockIdx, "text"))
                   ELSE s
         IN  CASE s1.currentBlockType = "thinking" ->
                    Write(s1, EvDelta(s1.currentBlockIdx, "thinking_delta", text))
               [] s1.currentBlockType = "text" ->
                    Write(s1, EvDelta(s1.currentBlockIdx, "text_delta", text))
               [] OTHER -> s1

emitDelta(s, text) ==
    IF text = <<>> THEN s
    ELSE LET s1 == IF s.currentBlockType = ""
                   THEN Write([s EXCEPT !.currentBlockIdx = @ + 1,
                                        !.currentBlockType = "text"],
                              EvBlockStart(s.currentBlockIdx + 1, "text"))
                   ELSE s
         IN  CASE s1.currentBlockType = "thinking" ->
                    Write(s1, EvDelta(s1.currentBlockIdx, "thinking_delta", text))
               [] s1.currentBlockType = "text" ->
                    Write(s1, EvDelta(s1.currentBlockIdx, "text_delta", text))
               [] OTHER -> s1

closeBlock(s) ==
    LET s1 == IF s.currentBlockIdx >= 0
              THEN Write(s, EvBlockStop(s.currentBlockIdx))
              ELSE s
    IN  [s1 EXCEPT !.currentBlockType = ""]

\* [DONE] handling that closes the open block only after message_delta
handleDone_closeLate(s) ==
    LET s1 == IF s.contentBuffer # <<>>
              THEN [emitDelta(s, s.contentBuffer) EXCEPT !.contentBuffer = <<>>]
              ELSE s
        stopReason == IF s1.hasToolUse THEN "tool_use" ELSE "end_turn"
        s2 == Write(s1, EvMessageDelta(stopReason, s1.lastUsage.output))
        s3 == closeBlock(s2)
    IN  Write(s3, EvMessageStop)

\* data == "[DONE]"
handleDone(s) ==
    LET s1 == IF s.contentBuffer # <<>>
              THEN [emitDelta(s, s.contentBuffer) EXCEPT !.contentBuffer = <<>>]
              ELSE s
        s2 == closeBlock(s1)
        stopReason == IF s2.hasToolUse THEN "tool_use" ELSE "end_turn"
        s3 == Write(s2, EvMessageDelta(stopReason, s2.lastUsage.output))
    IN  Write(s3, EvMessageStop)

absorbUsage(s, chunk) ==
    IF chunk.usage.present
    THEN [s EXCEPT !.lastUsage = [input  |-> chunk.usage.prompt_tokens,
                                  output |-> chunk.usage.completion_tokens]]
    ELSE s

\* message_start that forgets to set startedMessage
messageStart_everyChunk(s) ==
    IF ~s.startedMessage
    THEN Write(s, EvMessageStart(s.lastUsage))
    ELSE s

messageStart(s) ==
    IF ~s.startedMessage
    THEN [Write(s, EvMessageStart(s.lastUsage)) EXCEPT !.startedMessage = TRUE]
    ELSE s

openThinking(s) ==
    Write([s EXCEPT !.currentBlockIdx = @ + 1, !.currentBlockType = "thinking"],
          EvBlockStart(s.currentBlockIdx + 1, "thinking"))

\* 1. Handle Reasoning
reasoningPass(s, delta) ==
    LET rContent == IF delta.reasoning_content = <<>>
                    THEN delta.reasoning ELSE delta.reasoning_content
    IN  IF rContent # <<>>
        THEN LET s1 == IF s.currentBlockType # "thinking"
                       THEN openThinking(closeBlock(s))
                       ELSE s
             IN  emitDelta(s1, rContent)
        ELSE s

\* safe partial check that looks for "<" only in the buffers longer than the
\* window and lets a short buffer through whole
safeCutoff_shortUnchecked(buf) ==
    IF Len(buf) > Window
    THEN LET lastOpen == LastIndexByte(Slice(buf, Len(buf) - Window, Len(buf)), "<")
         IN  IF lastOpen # -1 THEN (Len(buf) - Window) + lastOpen ELSE Len(buf)
    ELSE Len(buf)

\* a cutoff at the first "<" of the buffer, however far back it is
safeCutoff_fromFirst(buf) ==
    IF ContainsByte(buf, "<") THEN Index(buf, <<"<">>) ELSE Len(buf)

\* the cutoff of the safe partial check
safeCutoff(buf) ==
    IF Len(buf) > Window
    THEN LET lastOpen == LastIndexByte(Slice(buf, Len(buf) - Window, Len(buf)), "<")
         IN  IF lastOpen # -1 THEN (Len(buf) - Window) + lastOpen ELSE Len(buf)
    ELSE IF ContainsByte(buf, "<") THEN LastIndexByte(buf, "<") ELSE Len(buf)

\* <think>
thinkStart(s, tagIdx) ==
    LET s1 == IF s.currentBlockType = "text" THEN closeBlock(s) ELSE s
        s2 == IF s1.currentBlockType # "thinking" THEN openThinking(s1) ELSE s1
    IN  [s2 EXCEPT !.contentBuffer = Slice(@, tagIdx + 7, Len(@))]

\* </think> that opens the text block at once
thinkEnd_preOpen(s, tagIdx) ==
    LET s1 == IF s.currentBlockType = "thinking" THEN closeBlock(s) ELSE s
        s2 == Write([s1 EXCEPT !.currentBlockIdx = @ + 1,
                               !.currentBlockType = "text"],
                    EvBlockStart(s1.currentBlockIdx + 1, "text"))
    IN  [s2 EXCEPT !.contentBuffer = Slice(@, tagIdx + 8, Len(@))]

\* </think>
thinkEnd(s, tagIdx) ==
    LET s1 == IF s.currentBlockType = "thinking" THEN closeBlock(s) ELSE s
    IN  [s1 EXCEPT !.contentBuffer = Slice(@, tagIdx + 8, Len(@))]

\* the inner for-loop of the content pass
RECURSIVE parseLoop(_)
parseLoop(s) ==
    LET buf      == s.contentBuffer
        startTag == Index(buf, ThinkOpen)
        endTag   == Index(buf, ThinkClose)
    IN  IF startTag = -1 /\ endTag = -1
        THEN LET cutoff == safeCutoff(buf)
                 safe   == Slice(buf, 0, cutoff)
                 s1     == [s EXCEPT !.contentBuffer = Slice(buf, cutoff, Len(buf))]
             IN  IF safe # <<>> THEN emitDelta(s1, safe) ELSE s1
        ELSE LET isStart == startTag # -1 /\ (endTag = -1 \/ startTag < endTag)
                 tagIdx  == IF isStart THEN startTag ELSE endTag
                 pre     == Slice(buf, 0, tagIdx)
                 s1      == IF pre # <<>> THEN emitDelta(s, pre) ELSE s
             IN  IF isStart THEN parseLoop(thinkStart(s1, tagIdx))
                            ELSE parseLoop(thinkEnd(s1, tagIdx))

\* 2. Handle Text
contentPass(s, delta) ==
    IF delta.content # <<>>
    THEN LET s1 == IF s.currentBlockType = "tool_use" THEN closeBlock(s) ELSE s
         IN  parseLoop([s1 EXCEPT !.contentBuffer = @ \o delta.content])
    ELSE s

\* tool_calls entry that opens the block without marking hasToolUse
toolEntry_noFlag(s, tc) ==
    LET s1 == IF tc.index # s.currentToolIndex \/ tc.id # ""
              THEN LET s0 == IF s.currentBlockType = "tool_use"
                                /\ tc.index # s.currentToolIndex
                             THEN closeBlock(s) ELSE s
                   IN  IF tc.id # ""
                       THEN Write([s0 EXCEPT !.currentToolIndex = tc.index,
                                             !.currentBlockIdx = @ + 1,
                                             !.currentBlockType = "tool_use"],
                                  EvToolStart(s0.currentBlockIdx + 1, tc.id, tc.name))
                       ELSE s0
              ELSE s
    IN  IF tc.arguments # <<>>
        THEN Write(s1, EvDelta(s1.currentBlockIdx, "input_json_delta", tc.arguments))
        ELSE s1

\* tool_calls entry that closes the open block whenever the entry has no id
toolEntry_closeOnFragment(s, tc) ==
    LET s1 == IF tc.index # s.currentToolIndex \/ tc.id # ""
              THEN LET s0 == IF s.currentBlockType = "tool_use"
                                /\ tc.index # s.currentToolIndex
                             THEN closeBlock(s) ELSE s
                   IN  IF tc.id # ""
                       THEN Write([s0 EXCEPT !.currentToolIndex = tc.index,
                                             !.hasToolUse = TRUE,
                                             !.currentBlockIdx = @ + 1,
                                             !.currentBlockType = "tool_use"],
                                  EvToolStart(s0.currentBlockIdx + 1, tc.id, tc.name))
                       ELSE s0
              ELSE IF s.currentBlockType = "tool_use" THEN closeBlock(s) ELSE s
    IN  IF tc.arguments # <<>>
        THEN Write(s1, EvDelta(s1.currentBlockIdx, "input_json_delta", tc.arguments))
        ELSE s1

\* one tool_calls entry
toolEntry(s, tc) ==
    LET s1 == IF tc.index # s.currentToolIndex \/ tc.id # ""
              THEN LET s0 == IF s.currentBlockType = "tool_use"
                                /\ tc.index # s.currentToolIndex
                             THEN closeBlock(s) ELSE s
                   IN  IF tc.id # ""
                       THEN Write([s0 EXCEPT !.currentToolIndex = tc.index,
                                             !.hasToolUse = TRUE,
                                             !.currentBlockIdx = @ + 1,
                                             !.currentBlockType = "tool_use"],
                                  EvToolStart(s0.currentBlockIdx + 1, tc.id, tc.name))
                       ELSE s0
              ELSE s
    IN  IF tc.arguments # <<>>
        THEN Write(s1, EvDelta(s1.currentBlockIdx, "input_json_delta", tc.arguments))
        ELSE s1

RECURSIVE toolLoop(_, _)
toolLoop(s, tcs) ==
    IF tcs = <<>> THEN s ELSE toolLoop(toolEntry(s, Head(tcs)), Tail(tcs))

\* 3. Handle Tool Calls
toolPass(s, delta) ==
    IF Len(delta.tool_calls) > 0
    THEN LET s1 == IF s.currentBlockType \in {"text", "thinking"}
                   THEN closeBlock(s) ELSE s
         IN  toolLoop(s1, delta.tool_calls)
    ELSE s

\* usage taken only from the chunks that have choices
processChunk_usageNeedsChoices(s, chunk) ==
    IF ~chunk.hasChoices THEN s
    ELSE toolPass(contentPass(reasoningPass(messageStart(absorbUsage(s, chunk)),
                                            chunk), chunk), chunk)

\* one successfully parsed data line that is not [DONE]
processChunk(s, chunk) ==
    LET s1 == absorbUsage(s, chunk)
    IN  IF ~chunk.hasChoices THEN s1
        ELSE toolPass(contentPass(reasoningPass(messageStart(s1), chunk), chunk), chunk)

----------------------------------------------------------------------------
(* Upstream lines *)

NoUsage == [present |-> FALSE, prompt_tokens |-> 0, completion_tokens |-> 0]
Usage(p, c) == [present |-> TRUE, prompt_tokens |-> p, completion_tokens |-> c]

\* OAToolCall
TC(index, id, name, arguments) ==
    [index |-> index, id |-> id, name |-> name, arguments |-> arguments]

\* OAStreamChunk with one choice
Chunk(rc, r, c, tcs) ==
    [hasChoices |-> TRUE, usage |-> NoUsage, reasoning_content |-> rc,
     reasoning |-> r, content |-> c, tool_calls |-> tcs]

ContentChunk(c) == Chunk(<<>>, <<>>, c, <<>>)
ToolChunk(tcs)  == Chunk(<<>>, <<>>, <<>>, tcs)

\* OAStreamChunk with usage and an empty choices array
UsageChunk(p, c) == [Chunk(<<>>, <<>>, <<>>, <<>>) EXCEPT !.hasChoices = FALSE,
                                                          !.usage = Usage(p, c)]

ArgsA == <<"{", "a", ":">>
ArgsB == <<"1", "}">>

ToolX  == TC(0, "X", "Y", <<>>)
ToolXA == TC(0, "", "", ArgsA)
ToolXB == TC(0, "", "", ArgsB)
ToolZ  == TC(1, "Z", "N", <<"{", "}">>)
ToolQ  == TC(1, "", "", <<"q">>)

\* 18 bytes of text and the first three bytes of a tag: longer than the window
LongHeld == Repeat("x", 18) \o <<"<", "t", "h">>
\* a "<" followed by a full window of text
LongFree == <<"<">> \o Repeat("x", Window)

Chunks ==
    { Chunk(<<"R">>, <<>>, <<>>, <<>>),
      Chunk(<<>>, <<"S">>, <<>>, <<>>),
      ContentChunk(<<"A">>),
      ContentChunk(<<"<">>),
      ContentChunk(ThinkOpen \o <<"t">>),
      ContentChunk(ThinkClose),
      ContentChunk(LongHeld),
      ToolChunk(<<ToolX>>),
      ToolChunk(<<ToolXA>>),
      ToolChunk(<<ToolXB>>),
      ToolChunk(<<ToolZ>>),
      ToolChunk(<<ToolQ>>),
      UsageChunk(3, 5),
      [Chunk(<<"R">>, <<"S">>, <<"B", "<">>, <<TC(0, "W", "V", <<"[">>)>>)
          EXCEPT !.usage = Usage(1, 2)] }

\* content fragments of the chunk-splitting specification
Frags ==
    { <<"<", "t", "h", "i">>,
      <<"n", "k", ">", "h", "e", "l", "l", "o">> \o ThinkClose,
      <<"<">>, <<"/">>, <<"t", "h", "i", "n", "k", ">">>,
      <<"A">>, ThinkOpen, ThinkClose, LongHeld, LongFree }

Line(kind, chunk) == [kind |-> kind, chunk |-> chunk]
NoChunk == [Chunk(<<>>, <<>>, <<>>, <<>>) EXCEPT !.hasChoices = FALSE]

----------------------------------------------------------------------------
(* The upstream dispatcher: retry loop and terminal response *)

maxRetries == 3

\* what HttpClient.Do returns: a transport error (resp is nil) or a response.
\* A body is a sequence of pieces of text; the body of an upstream response
\* is given byte by byte
TransportError ==
    [err |-> TRUE, status |-> 0, body |-> <<>>, ctype |-> "",
     decodable |-> FALSE, choices |-> 0, closed |-> FALSE]

\* a response: decodable says that the body decodes into an OAChatResp,
\* choices is the length of its Choices
Resp(status, body, ctype, decodable, choices) ==
    [err |-> FALSE, status |-> status, body |-> body, ctype |-> ctype,
     decodable |-> decodable, choices |-> choices, closed |-> FALSE]

Upstreams ==
    { TransportError,
      Resp(200, <<"{", "c", ":", "1", "}">>, "application/json", TRUE, 1),
      Resp(200, <<"{", "c", ":", "0", "}">>, "application/json", TRUE, 0),
      Resp(200, <<"<", "h", "t", "m", "l", ">">>, "text/html", FALSE, 0),
      Resp(400, <<"b", "a", "d", " ", "r", "e", "q", "u", "e", "s", "t">>,
           "application/json", TRUE, 0),
      Resp(404, <<"n", "o", "t", " ", "f", "o", "u", "n", "d">>, "", FALSE, 0),
      Resp(429, <<"s", "l", "o", "w", " ", "d", "o", "w", "n">>, "text/plain", FALSE, 0),
      Resp(503, <<"d", "o", "w", "n">>, "", FALSE, 0) }

\* json.NewEncoder(byteBuf).Encode(oaReqMap): the bytes of the request body
Marshaled == "request"

\* the dispatcher's locals and the client response as one record, after the
\* request body was marshaled
InitDispatch(streaming) ==
    [dpc |-> "attempt", i |-> 0, resp |-> TransportError, posts |-> <<>>,
     stream |-> streaming, canceled |-> FALSE,
     clientStatus |-> 0, clientCtype |-> "", clientBody |-> <<>>,
     bodies |-> <<>>, sent |-> <<>>, byteBuf |-> Marshaled,
     bufGets |-> 1, bufPuts |-> 0, defers |-> <<"put">>,
     upstreamErrors |-> 0, token |-> FALSE, buffered |-> 0]

\* the dispatcher at the entry of forwardOAMap
EntryDispatch(streaming) ==
    [InitDispatch(streaming) EXCEPT !.dpc = "limit", !.byteBuf = "",
                                    !.bufGets = 0, !.defers = <<>>]

Deferred(d, f) == \E k \in 1..Len(d.defers) : d.defers[k] = f

\* resp.Body.Close()
closeBody(d) ==
    [d EXCEPT !.resp.closed = TRUE, !.bodies = [@ EXCEPT ![Len(@)] = "closed"]]

\* return: the deferred resp.Body.Close() and bufferPool.Put(byteBuf) run
ret(d) ==
    LET d1 == IF Deferred(d, "close") THEN closeBody(d) ELSE d
    IN  [d1 EXCEPT !.bufPuts = IF Deferred(d, "put") THEN @ + 1 ELSE @,
                   !.defers = <<>>,
                   !.dpc = "returned"]

\* an error answer whose return skips the deferred calls
httpError_noDefer(d, msg, code) ==
    [d EXCEPT !.clientStatus = code,
              !.clientCtype = "text/plain; charset=utf-8",
              !.clientBody = <<msg, "\n">>,
              !.dpc = "returned"]

\* http.Error(w, msg, code) followed by return: the body is the message and
\* a line end
httpError(d, msg, code) ==
    ret([d EXCEPT !.clientStatus = code,
                  !.clientCtype = "text/plain; charset=utf-8",
                  !.clientBody = <<msg, "\n">>])

\* io.ReadAll(resp.Body) when n bytes arrive: a body that was closed before
\* yields an error and no bytes, a read that fails after n bytes yields an
\* error and these n bytes, a read that reaches the end yields all of them
readAll(r, n) == IF r.closed THEN <<>> ELSE SubSeq(r.body, 1, n)

\* proxy.go:130-135 and 220-229: what follows the retry loop up to the read
\* of the response body; a stream is read by the read loop
afterLoop(d) ==
    IF d.resp.err
    THEN [d EXCEPT !.dpc = "panic"]
    ELSE LET d0 == [d EXCEPT !.defers = Append(@, "close")]
         IN  IF d0.resp.status # 200
             THEN [d0 EXCEPT
                     !.upstreamErrors = IF d0.resp.status >= 500 THEN @ + 1 ELSE @,
                     !.dpc = "body"]
             ELSE IF ~d0.stream
             THEN [d0 EXCEPT !.clientCtype = "application/json", !.dpc = "body"]
             ELSE [d0 EXCEPT !.clientStatus = 200,
                             !.clientCtype = "text/event-stream",
                             !.dpc = "streaming"]

\* proxy.go:136-147 and 155-163, 210-218: n bytes of the body are read, all
\* of it or less when the read fails, and the answer is written; the error
\* of the read is logged only, and a body that is cut short does not decode
afterBody(d, n) ==
    IF d.resp.status # 200
    THEN ret([d EXCEPT !.clientStatus = d.resp.status,
                       !.clientCtype = IF d.resp.ctype # "" THEN d.resp.ctype
                                       ELSE "application/json",
                       !.clientBody = readAll(d.resp, n)])
    ELSE IF n < Len(d.resp.body) \/ d.resp.closed \/ ~d.resp.decodable
    THEN httpError(d, "upstream decode error", 502)
    ELSE IF d.resp.choices = 0
    THEN httpError(d, "empty choices", 502)
    ELSE ret([d EXCEPT !.clientStatus = 200,
                       !.clientCtype = "application/json",
                       !.clientBody = <<"message">>])

\* HttpClient.Do(or) with the buffer's bytes as body, and its outcome o
httpDo(d, o) ==
    [d EXCEPT !.resp = o, !.posts = Append(@, o),
              !.bodies = Append(@, IF o.err THEN "none" ELSE "open"),
              !.sent = Append(@, d.byteBuf),
              !.upstreamErrors = IF o.err THEN @ + 1 ELSE @]

\* loop body that allows one retry more than maxRetries
afterDo_oneMoreRetry(d, o) ==
    LET d1 == httpDo(d, o)
    IN  IF o.err
        THEN IF d1.i >= maxRetries + 1
             THEN httpError(d1, "transport error", 502)
             ELSE [d1 EXCEPT !.dpc = "backoff"]
        ELSE IF d1.resp.status # 429 /\ d1.resp.status < 500
        THEN afterLoop(d1)
        ELSE LET d2 == closeBody(d1)
             IN  IF d2.i < maxRetries + 1
                 THEN [d2 EXCEPT !.dpc = "backoff"]
                 ELSE afterLoop([d2 EXCEPT !.i = @ + 1])

\* loop body that retries every status of 400 and above
afterDo_retryClientErrors(d, o) ==
    LET d1 == httpDo(d, o)
    IN  IF o.err
        THEN IF d1.i >= maxRetries
             THEN httpError(d1, "transport error", 502)
             ELSE [d1 EXCEPT !.dpc = "backoff"]
        ELSE IF d1.resp.status < 400
        THEN afterLoop(d1)
        ELSE LET d2 == closeBody(d1)
             IN  IF d2.i < maxRetries
                 THEN [d2 EXCEPT !.dpc = "backoff"]
                 ELSE afterLoop([d2 EXCEPT !.i = @ + 1])

\* loop body that passes the status of a 429/5xx response on before it waits
afterDo_forwardEach(d, o) ==
    LET d1 == httpDo(d, o)
    IN  IF o.err
        THEN IF d1.i >= maxRetries
             THEN httpError(d1, "transport error", 502)
             ELSE [d1 EXCEPT !.dpc = "backoff"]
        ELSE IF d1.resp.status # 429 /\ d1.resp.status < 500
        THEN afterLoop(d1)
        ELSE LET d2 == closeBody(d1)
             IN  IF d2.i < maxRetries
                 THEN [d2 EXCEPT !.dpc = "backoff", !.clientStatus = d1.resp.status]
                 ELSE afterLoop([d2 EXCEPT !.i = @ + 1])

\* loop body that leaves the loop instead of returning after the last error
afterDo_fallThrough(d, o) ==
    LET d1 == httpDo(d, o)
    IN  IF o.err
        THEN IF d1.i >= maxRetries
             THEN afterLoop(d1)
             ELSE [d1 EXCEPT !.dpc = "backoff"]
        ELSE IF d1.resp.status # 429 /\ d1.resp.status < 500
        THEN afterLoop(d1)
        ELSE LET d2 == closeBody(d1)
             IN  IF d2.i < maxRetries
                 THEN [d2 EXCEPT !.dpc = "backoff"]
                 ELSE afterLoop([d2 EXCEPT !.i = @ + 1])

\* loop body that leaves the body of a retried response open
afterDo_noClose(d, o) ==
    LET d1 == httpDo(d, o)
    IN  IF o.err
        THEN IF d1.i >= maxRetries
             THEN httpError(d1, "transport error", 502)
             ELSE [d1 EXCEPT !.dpc = "backoff"]
        ELSE IF d1.resp.status # 429 /\ d1.resp.status < 500
        THEN afterLoop(d1)
        ELSE IF d1.i < maxRetries
             THEN [d1 EXCEPT !.dpc = "backoff"]
             ELSE afterLoop([d1 EXCEPT !.i = @ + 1])

\* proxy.go:90-129: one pass of the loop body from HttpClient.Do to the next
\* wait, the return, or the end of the loop
afterDo(d, o) ==
    LET d1 == httpDo(d, o)
    IN  IF o.err
        THEN IF d1.i >= maxRetries
             THEN httpError(d1, "transport error", 502)
             ELSE [d1 EXCEPT !.dpc = "backoff"]
        ELSE IF d1.resp.status # 429 /\ d1.resp.status < 500
        THEN afterLoop(d1)
        ELSE LET d2 == closeBody(d1)
             IN  IF d2.i < maxRetries
                 THEN [d2 EXCEPT !.dpc = "backoff"]
                 ELSE afterLoop([d2 EXCEPT !.i = @ + 1])

Dispatch ==
    [dpc |-> dpc, i |-> loopI, resp |-> resp, posts |-> posts, stream |-> stream,
     canceled |-> canceled, clientStatus |-> clientStatus,
     clientCtype |-> clientCtype, clientBody |-> clientBody,
     bodies |-> bodies, sent |-> sent, byteBuf |-> byteBuf,
     bufGets |-> bufGets, bufPuts |-> bufPuts, defers |-> defers,
     upstreamErrors |-> upstreamErrors, token |-> token, buffered |-> buffered]

BecomeDispatch(d) ==
    /\ dpc' = d.dpc
    /\ loopI' = d.i
    /\ resp' = d.resp
    /\ posts' = d.posts
    /\ stream' = d.stream
    /\ canceled' = d.canceled
    /\ clientStatus' = d.clientStatus
    /\ clientCtype' = d.clientCtype
    /\ clientBody' = d.clientBody
    /\ bodies' = d.bodies
    /\ sent' = d.sent
    /\ byteBuf' = d.byteBuf
    /\ bufGets' = d.bufGets
    /\ bufPuts' = d.bufPuts
    /\ defers' = d.defers
    /\ upstreamErrors' = d.upstreamErrors
    /\ token' = d.token
    /\ buffered' = d.buffered

\* the dispatcher's variables hold the record d
IsDispatch(d) ==
    /\ dpc = d.dpc
    /\ loopI = d.i
    /\ resp = d.resp
    /\ posts = d.posts
    /\ stream = d.stream
    /\ canceled = d.canceled
    /\ clientStatus = d.clientStatus
    /\ clientCtype = d.clientCtype
    /\ clientBody = d.clientBody
    /\ bodies = d.bodies
    /\ sent = d.sent
    /\ byteBuf = d.byteBuf
    /\ bufGets = d.bufGets
    /\ bufPuts = d.bufPuts
    /\ defers = d.defers
    /\ upstreamErrors = d.upstreamErrors
    /\ token = d.token
    /\ buffered = d.buffered

\* the dispatcher after a first attempt that was answered 200 in streaming mode
DispatchStreaming ==
    afterDo(InitDispatch(TRUE), Resp(200, <<"{", "c", ":", "1", "}">>, "application/json", TRUE, 1))

\* reader.ReadString('\n') returns a line: once the client has left, the
\* upstream body yields nothing more and the line comes out of the reader's
\* buffer
HasLine == canceled => buffered > 0

consume(d) == IF d.canceled THEN [d EXCEPT !.buffered = @ - 1] ELSE d

----------------------------------------------------------------------------
(* Credentials and the per-credential token bucket (src/auth.go) *)

\* The clock counts milliseconds.  A time.Duration is kept in nanoseconds as
\* [ms, ns]: ms whole milliseconds and ns < Mega nanoseconds more.
Mega == 1000000

\* time.Minute, in milliseconds
Minute == 60000

\* time.Minute / time.Duration(rpm): the integer division of 60e9 ns by rpm
perToken(rpm) ==
    LET m == Minute % rpm
        a == (m * 1000) \div rpm
        b == (m * 1000) % rpm
    IN  [ms |-> Minute \div rpm, ns |-> a * 1000 + ((b * 1000) \div rpm)]

\* n intervals of length r last no longer than e milliseconds
Within(n, r, e) == n * r.ms + ((n * r.ns + Mega - 1) \div Mega) <= e

\* int(elapsed / rate) for an elapsed time of e whole milliseconds
intervals(e, r) ==
    IF r.ns = 0 THEN e \div r.ms
    ELSE IF r.ms = 0 THEN e * (Mega \div r.ns) + ((e * (Mega % r.ns)) \div r.ns)
    ELSE Max({n \in 0..(e \div r.ms) : Within(n, r, e)})

\* the credentials of keys.json
Config(rateLimit, active) == [RateLimit |-> rateLimit, Role |-> "user", Active |-> active]

\* no keys.json, or an empty one
EmptyTable == [k \in {} |-> Config(0, FALSE)]

KeyTable ==
    [k \in {"alice", "bob", "carol", "dave"} |->
        CASE k = "alice" -> Config(2, TRUE)
          [] k = "bob"   -> Config(3, FALSE)
          [] k = "carol" -> Config(0, TRUE)
          [] k = "dave"  -> Config(4, TRUE)]

Tables == {EmptyTable, KeyTable}

\* bearer tokens the clients send; "" is a request without a credential header
Tokens == {"", "alice", "bob", "carol", "dave", "mallory"}

\* OPENAI_API_KEY, the key of the server itself: unset or set
ServerKeys == {"", "sk-server"}

NilLimiter ==
    [nil |-> TRUE, tokens |-> 0, max |-> 0, lastRef |-> 0, rate |-> [ms |-> 0, ns |-> 0]]

newRateLimiter(rpm, t) ==
    IF rpm <= 0 THEN NilLimiter
    ELSE [nil |-> FALSE, tokens |-> rpm, max |-> rpm, lastRef |-> t,
          rate |-> perToken(rpm)]

\* a refill step that forgets the cap
refill_noCap(rl, t) ==
    LET elapsed     == t - rl.lastRef
        tokensToAdd == intervals(elapsed, rl.rate)
    IN  IF tokensToAdd > 0
        THEN [rl EXCEPT !.tokens = @ + tokensToAdd, !.lastRef = t]
        ELSE rl

\* tokens after the refill step of Allow
refill(rl, t) ==
    LET elapsed     == t - rl.lastRef
        tokensToAdd == intervals(elapsed, rl.rate)
    IN  IF tokensToAdd > 0
        THEN [rl EXCEPT !.tokens = Min({@ + tokensToAdd, rl.max}), !.lastRef = t]
        ELSE rl

\* a refill that forgets the cap
Allow_noCap(rl, t) ==
    LET elapsed     == t - rl.lastRef
        tokensToAdd == intervals(elapsed, rl.rate)
        r == IF tokensToAdd > 0
             THEN [rl EXCEPT !.tokens = @ + tokensToAdd, !.lastRef = t]
             ELSE rl
    IN  IF r.tokens > 0
        THEN [rl |-> [r EXCEPT !.tokens = @ - 1], ok |-> TRUE]
        ELSE [rl |-> r, ok |-> FALSE]

\* RateLimiter.Allow at time t: the limiter afterwards and the result
Allow(rl, t) ==
    LET r == refill(rl, t)
    IN  IF r.tokens > 0
        THEN [rl |-> [r EXCEPT !.tokens = @ - 1], ok |-> TRUE]
        ELSE [rl |-> r, ok |-> FALSE]

\* what a call of validateAPIKey returns and leaves behind
Verdict(allowed, limiters, called, before, after) ==
    [allowed |-> allowed, limiters |-> limiters, called |-> called,
     rl |-> before, rl2 |-> after]

\* the limiter of key, made on first use (auth.go:112-118)
limiterOf(table, limiters, key, t) ==
    IF key \in DOMAIN limiters THEN limiters[key]
    ELSE newRateLimiter(table[key].RateLimit, t)

\* the rate limit looked at before the Active flag
enterValidate_limitFirst(table, limiters, key, t) ==
    IF DOMAIN table = {} THEN Verdict(TRUE, limiters, FALSE, NilLimiter, NilLimiter)
    ELSE IF key \notin DOMAIN table
         THEN Verdict(FALSE, limiters, FALSE, NilLimiter, NilLimiter)
    ELSE IF table[key].RateLimit > 0
         THEN LET rl  == limiterOf(table, limiters, key, t)
                  ls1 == [k \in DOMAIN limiters \cup {key} |->
                             IF k = key THEN rl ELSE limiters[k]]
              IN  Verdict(FALSE, ls1, TRUE, rl, rl)
    ELSE Verdict(table[key].Active, limiters, FALSE, NilLimiter, NilLimiter)

\* auth.go:92-118: validateAPIKey(key) at time t up to the release of
\* limitersMu.  Either the call returns (called is FALSE), or it holds the
\* limiter of the key and goes on to call Allow (called is TRUE)
enterValidate(table, limiters, key, t) ==
    IF DOMAIN table = {} THEN Verdict(TRUE, limiters, FALSE, NilLimiter, NilLimiter)
    ELSE IF key \notin DOMAIN table
         THEN Verdict(FALSE, limiters, FALSE, NilLimiter, NilLimiter)
    ELSE IF ~table[key].Active
         THEN Verdict(FALSE, limiters, FALSE, NilLimiter, NilLimiter)
    ELSE IF table[key].RateLimit > 0
         THEN LET rl  == limiterOf(table, limiters, key, t)
                  ls1 == [k \in DOMAIN limiters \cup {key} |->
                             IF k = key THEN rl ELSE limiters[k]]
              IN  IF rl.nil THEN Verdict(TRUE, ls1, FALSE, rl, rl)
                  ELSE Verdict(FALSE, ls1, TRUE, rl, rl)
    ELSE Verdict(TRUE, limiters, FALSE, NilLimiter, NilLimiter)

\* auth.go:120-125: limiter.Allow() at time t on the limiter of the key,
\* and the return
allowValidate(limiters, key, t) ==
    LET rl == limiters[key]
        a  == Allow(rl, t)
    IN  Verdict(a.ok, [limiters EXCEPT ![key] = a.rl], TRUE, rl, a.rl)

\* validateAPIKey(key) at time t when no other goroutine runs between its
\* two locked sections and the clock reads t in both
validateAPIKey(table, limiters, key, t) ==
    LET e == enterValidate(table, limiters, key, t)
    IN  IF e.called THEN allowValidate(e.limiters, key, t) ELSE e

\* the record kept of a call
Call(key, t, before, v) ==
    [key |-> key, t |-> t, before |-> before, after |-> v.limiters,
     allowed |-> v.allowed, called |-> v.called, rl |-> v.rl, rl2 |-> v.rl2]

NoLimiters == [k \in {} |-> NilLimiter]

NoCall ==
    [key |-> "none", t |-> 0, before |-> NoLimiters, after |-> NoLimiters,
     allowed |-> FALSE, called |-> FALSE, rl |-> NilLimiter, rl2 |-> NilLimiter]

\* no request has been authenticated, no credentials are configured
AuthIdle ==
    /\ apiKeys = EmptyTable
    /\ keyLimiters = NoLimiters
    /\ now = 0
    /\ reqPc = "idle"
    /\ reqKey = ""
    /\ authStatus = 0
    /\ lastCall = NoCall
    /\ rateLimitedCount = 0
    /\ rateLimitRejections = 0

----------------------------------------------------------------------------
(* The global limiter (src/main.go, src/unnamed/part_002, src/proxy.go) *)

Builds == {"main.go", "part_002"}

\* values of RATE_LIMIT and of updateConfig's newRate
RPMs == {0, 2, 5, 7}

burst(rpm) == IF rpm < 5 THEN rpm ELSE 5

\* make(chan struct{}, burst), the initial fill, and the refiller started
makeLimiter(rpm) ==
    [rpm |-> rpm, cap |-> burst(rpm), len |-> burst(rpm), refiller |-> "running"]

\* select { case ch <- struct{}{}: default: }
trySend(ch) == IF ch.len < ch.cap THEN [ch EXCEPT !.len = @ + 1] ELSE ch

\* a setup that leaves the old refiller running
setupRateLimiter_noStop(cs, lim, rpm) ==
    IF rpm <= 0
    THEN [chans |-> cs, limiter |-> 0]
    ELSE [chans |-> Append(cs, makeLimiter(rpm)), limiter |-> Len(cs) + 1]

\* setupRateLimiter(rpm) on the channels made so far and the current limiter
setupRateLimiter(cs, lim, rpm) ==
    LET stopped == IF lim # 0
                   THEN [cs EXCEPT ![lim].refiller =
                            IF @ = "running" THEN "stopping" ELSE @]
                   ELSE cs
    IN  IF rpm <= 0
        THEN [chans |-> stopped, limiter |-> 0]
        ELSE [chans |-> Append(stopped, makeLimiter(rpm)),
              limiter |-> Len(stopped) + 1]

Op(op, ch) == [op |-> op, ch |-> ch]

\* rate limiting is off and no request is at the check
LimiterIdle ==
    /\ rateLimitEnabled = FALSE
    /\ configRateLimit = 0
    /\ configAPIKey = ""
    /\ chans = <<>>
    /\ limiter = 0
    /\ lpc = "idle"
    /\ waitCh = 0
    /\ lastOp = Op("none", 0)

\* no goroutine is inside validateAPIKey
RaceIdle ==
    /\ callers = <<>>
    /\ limiterObjs = <<>>
    /\ keyPtrs = <<>>
    /\ allowLog = <<>>

\* no translation function is being applied
TranslateIdle ==
    /\ fnArg = [fn |-> "none"]
    /\ fnDone = FALSE
    /\ fnResult = <<>>

\* a server without credentials and without a global limiter
ServerIdle ==
    /\ build = "part_002"
    /\ AuthIdle
    /\ LimiterIdle
    /\ TranslateIdle
    /\ RaceIdle

----------------------------------------------------------------------------
(* The read loop *)

State ==
    [startedMessage   |-> startedMessage,
     lastUsage        |-> lastUsage,
     currentBlockType |-> currentBlockType,
     currentBlockIdx  |-> currentBlockIdx,
     hasToolUse       |-> hasToolUse,
     contentBuffer    |-> contentBuffer,
     currentToolIndex |-> currentToolIndex,
     w                |-> w]

Become(s) ==
    /\ startedMessage'   = s.startedMessage
    /\ lastUsage'        = s.lastUsage
    /\ currentBlockType' = s.currentBlockType
    /\ currentBlockIdx'  = s.currentBlockIdx
    /\ hasToolUse'       = s.hasToolUse
    /\ contentBuffer'    = s.contentBuffer
    /\ currentToolIndex' = s.currentToolIndex
    /\ w'                = s.w

Init ==
    /\ startedMessage   = InitState.startedMessage
    /\ lastUsage        = InitState.lastUsage
    /\ currentBlockType = InitState.currentBlockType
    /\ currentBlockIdx  = InitState.currentBlockIdx
    /\ hasToolUse       = InitState.hasToolUse
    /\ contentBuffer    = InitState.contentBuffer
    /\ currentToolIndex = InitState.currentToolIndex
    /\ w                = InitState.w
    /\ pc = "reading"
    /\ inp = <<>>
    /\ marks = <<>>
    /\ IsDispatch(DispatchStreaming)
    /\ ServerIdle

\* a data line that parses as a chunk (proxy.go:311-485)
ReadChunk(c) ==
    /\ pc = "reading"
    /\ HasLine
    /\ Len(inp) < MaxLines
    /\ LET s2 == processChunk(State, c)
       IN  /\ Become(s2)
           /\ marks' = Append(marks, Len(s2.w))
    /\ inp' = Append(inp, Line("chunk", c))
    /\ pc' = pc
    /\ BecomeDispatch(consume(Dispatch))
    /\ UNCHANGED <<serverVars, translateVars, raceVars>>

\* a skipped line that throws away the held-back content
SkipLine_dropBuffer ==
    /\ pc = "reading"
    /\ HasLine
    /\ Len(inp) < MaxLines
    /\ inp' = Append(inp, Line("skip", NoChunk))
    /\ marks' = Append(marks, Len(w))
    /\ contentBuffer' = <<>>
    /\ UNCHANGED <<startedMessage, lastUsage, currentBlockType, currentBlockIdx,
                   hasToolUse, currentToolIndex, w, pc>>
    /\ BecomeDispatch(consume(Dispatch))
    /\ UNCHANGED <<serverVars, translateVars, raceVars>>

\* a line without the "data: " prefix, or a data line that is not a chunk
SkipLine ==
    /\ pc = "reading"
    /\ HasLine
    /\ Len(inp) < MaxLines
    /\ inp' = Append(inp, Line("skip", NoChunk))
    /\ marks' = Append(marks, Len(w))
    /\ UNCHANGED <<startedMessage, lastUsage, currentBlockType, currentBlockIdx,
                   hasToolUse, contentBuffer, currentToolIndex, w, pc>>
    /\ BecomeDispatch(consume(Dispatch))
    /\ UNCHANGED <<serverVars, translateVars, raceVars>>

\* data: [DONE]
ReadDone ==
    /\ pc = "reading"
    /\ HasLine
    /\ LET s2 == handleDone(State)
       IN  /\ Become(s2)
           /\ marks' = Append(marks, Len(s2.w))
    /\ inp' = Append(inp, Line("done", NoChunk))
    /\ pc' = "done"
    /\ BecomeDispatch(ret(consume(Dispatch)))
    /\ UNCHANGED <<serverVars, translateVars, raceVars>>

\* a read error that is answered with the trailer of a finished stream
ReadError_withTrailer ==
    /\ pc = "reading"
    /\ canceled => buffered = 0
    /\ pc' = "closed"
    /\ Become(handleDone(State))
    /\ UNCHANGED <<inp, marks>>
    /\ BecomeDispatch(ret(Dispatch))
    /\ UNCHANGED <<serverVars, translateVars, raceVars>>

\* reader.ReadString fails: EOF or transport error; break, and the function
\* returns
ReadError ==
    /\ pc = "reading"
    /\ canceled => buffered = 0
    /\ pc' = "closed"
    /\ UNCHANGED <<startedMessage, lastUsage, currentBlockType, currentBlockIdx,
                   hasToolUse, contentBuffer, currentToolIndex, w, inp, marks>>
    /\ BecomeDispatch(ret(Dispatch))
    /\ UNCHANGED <<serverVars, translateVars, raceVars>>

Next ==
    \/ \E c \in Chunks : ReadChunk(c)
    \/ SkipLine
    \/ ReadDone
    \/ ReadError

Spec == Init /\ [][Next]_vars

\* a data line that carries one fragment of a content string
ReadFrag(f) ==
    /\ pc = "reading"
    /\ HasLine
    /\ Len(inp) < MaxFrags
    /\ LET s2 == processChunk(State, ContentChunk(f))
       IN  /\ Become(s2)
           /\ marks' = Append(marks, Len(s2.w))
    /\ inp' = Append(inp, Line("chunk", ContentChunk(f)))
    /\ pc' = pc
    /\ BecomeDispatch(consume(Dispatch))
    /\ UNCHANGED <<serverVars, translateVars, raceVars>>

NextSplit ==
    \/ \E f \in Frags : ReadFrag(f)
    \/ ReadDone

SpecSplit == Init /\ [][NextSplit]_vars

----------------------------------------------------------------------------
(* The dispatcher's steps *)

\* the chunks of the streams that follow a dispatch
DispatchChunks == { ContentChunk(<<"A">>), ToolChunk(<<ToolX>>) }

InitRetry ==
    /\ startedMessage   = InitState.startedMessage
    /\ lastUsage        = InitState.lastUsage
    /\ currentBlockType = InitState.currentBlockType
    /\ currentBlockIdx  = InitState.currentBlockIdx
    /\ hasToolUse       = InitState.hasToolUse
    /\ contentBuffer    = InitState.contentBuffer
    /\ currentToolIndex = InitState.currentToolIndex
    /\ w                = InitState.w
    /\ pc = "idle"
    /\ inp = <<>>
    /\ marks = <<>>
    /\ \E streaming \in BOOLEAN : IsDispatch(InitDispatch(streaming))
    /\ ServerIdle

\* one upstream POST and what the loop does with its result
Attempt(o) ==
    /\ dpc = "attempt"
    /\ canceled => o.err
    /\ LET d == afterDo(Dispatch, o)
       IN  /\ BecomeDispatch(d)
           /\ pc' = IF d.dpc = "streaming" THEN "reading" ELSE pc
    /\ UNCHANGED <<startedMessage, lastUsage, currentBlockType, currentBlockIdx,
                   hasToolUse, contentBuffer, currentToolIndex, w, inp, marks>>
    /\ UNCHANGED <<serverVars, translateVars, raceVars>>

\* the numbers of bytes a read of a response body can deliver
ReadLengths == UNION {0..Len(o.body) : o \in Upstreams}

\* proxy.go:136 and 155: the read of the body of the last response, which
\* delivers n bytes. It can fail before the end: the connection breaks, or
\* the client has gone and the bytes were not all received before
ReadBody(n) ==
    /\ dpc = "body"
    /\ n \in 0..Len(resp.body)
    /\ BecomeDispatch(afterBody(Dispatch, n))
    /\ UNCHANGED streamVars
    /\ UNCHANGED <<serverVars, translateVars, raceVars>>

\* a wait that goes on to the next attempt although the client is gone
BackoffElapsed_ignoreCancel ==
    /\ dpc = "backoff"
    /\ BecomeDispatch([Dispatch EXCEPT !.i = @ + 1, !.dpc = "attempt"])
    /\ UNCHANGED streamVars
    /\ UNCHANGED <<serverVars, translateVars, raceVars>>

\* time.After(waitTime) fires first: continue
BackoffElapsed ==
    /\ dpc = "backoff"
    /\ ~canceled
    /\ BecomeDispatch([Dispatch EXCEPT !.i = @ + 1, !.dpc = "attempt"])
    /\ UNCHANGED streamVars
    /\ UNCHANGED <<serverVars, translateVars, raceVars>>

\* r.Context().Done() is ready in the select of the wait
BackoffCanceled ==
    /\ dpc = "backoff"
    /\ canceled
    /\ BecomeDispatch(httpError(Dispatch, "request canceled during retry", 499))
    /\ UNCHANGED streamVars
    /\ UNCHANGED <<serverVars, translateVars, raceVars>>

\* the client goes away while the dispatcher is in its retry loop
ClientCancel ==
    /\ dpc \in {"select", "attempt", "backoff", "body"}
    /\ ~canceled
    /\ BecomeDispatch([Dispatch EXCEPT !.canceled = TRUE])
    /\ UNCHANGED streamVars
    /\ UNCHANGED <<serverVars, translateVars, raceVars>>

NextRetry ==
    \/ \E o \in Upstreams : Attempt(o)
    \/ \E n \in ReadLengths : ReadBody(n)
    \/ BackoffElapsed
    \/ BackoffCanceled
    \/ ClientCancel
    \/ \E c \in DispatchChunks : ReadChunk(c)
    \/ SkipLine
    \/ ReadDone
    \/ ReadError

SpecRetry == InitRetry /\ [][NextRetry]_vars

----------------------------------------------------------------------------
(* Authentication of a request *)

\* the clock stops here
MaxNow == 60000

\* requests turned away by a limiter in one run
MaxRejections == 2

\* time that passes between two steps
Delays == {15000, 30000}

\* no stream is being translated and no upstream request is under way
ProxyIdle ==
    /\ startedMessage   = InitState.startedMessage
    /\ lastUsage        = InitState.lastUsage
    /\ currentBlockType = InitState.currentBlockType
    /\ currentBlockIdx  = InitState.currentBlockIdx
    /\ hasToolUse       = InitState.hasToolUse
    /\ contentBuffer    = InitState.contentBuffer
    /\ currentToolIndex = InitState.currentToolIndex
    /\ w                = InitState.w
    /\ pc = "idle"
    /\ inp = <<>>
    /\ marks = <<>>
    /\ IsDispatch(InitDispatch(TRUE))

\* after main() has loaded keys.json; only part_002 calls loadAPIKeys, only
\* main.go reads OPENAI_API_KEY
InitAuth ==
    /\ ProxyIdle
    /\ build \in Builds
    /\ apiKeys \in (IF build = "part_002" THEN Tables ELSE {EmptyTable})
    /\ keyLimiters = NoLimiters
    /\ now = 0
    /\ reqPc = "idle"
    /\ reqKey = ""
    /\ authStatus = 0
    /\ lastCall = NoCall
    /\ rateLimitedCount = 0
    /\ rateLimitRejections = 0
    /\ rateLimitEnabled = FALSE
    /\ configRateLimit = 0
    /\ configAPIKey \in (IF build = "main.go" THEN ServerKeys ELSE {""})
    /\ chans = <<>>
    /\ limiter = 0
    /\ lpc = "idle"
    /\ waitCh = 0
    /\ lastOp = Op("none", 0)
    /\ TranslateIdle
    /\ RaceIdle

Tick(d) ==
    /\ now + d <= MaxNow
    /\ now' = now + d
    /\ UNCHANGED <<apiKeys, keyLimiters, reqPc, reqKey, authStatus, lastCall,
                   rateLimitedCount, rateLimitRejections>>
    /\ UNCHANGED <<streamVars, dispatchVars, build, translateVars, raceVars, limiterVars>>

\* paths behind apiKeyAuthMiddleware (part_003:79-86)
ProtectedPaths == {"/v1/messages", "/v1/complete", "/v1/models"}

\* the credential check shared by the middleware and the handler, up to the
\* return of validateAPIKey or to its call of Allow: 401 without a credential
\* header or when validateAPIKey rejects
Authenticate(k, passed, waiting) ==
    /\ rateLimitRejections < MaxRejections
    /\ reqKey' = k
    /\ IF k = ""
       THEN /\ authStatus' = 401
            /\ reqPc' = "answered"
            /\ lastCall' = NoCall
            /\ UNCHANGED keyLimiters
       ELSE LET e == enterValidate(apiKeys, keyLimiters, k, now)
            IN  /\ keyLimiters' = e.limiters
                /\ IF e.called
                   THEN /\ reqPc' = waiting
                        /\ authStatus' = 0
                        /\ UNCHANGED lastCall
                   ELSE /\ lastCall' = Call(k, now, keyLimiters, e)
                        /\ authStatus' = IF e.allowed THEN 0 ELSE 401
                        /\ reqPc' = IF e.allowed THEN passed ELSE "answered"
    /\ UNCHANGED <<apiKeys, now, rateLimitedCount, rateLimitRejections>>
    /\ UNCHANGED <<streamVars, dispatchVars, build, translateVars, raceVars, limiterVars>>

\* the rest of the check: Allow on the limiter the call holds, the return of
\* validateAPIKey and the answer
AuthenticateAllow(passed, waiting) ==
    /\ reqPc = waiting
    /\ LET v == allowValidate(keyLimiters, reqKey, now)
       IN  /\ keyLimiters' = v.limiters
           /\ lastCall' = Call(reqKey, now, keyLimiters, v)
           /\ authStatus' = IF v.allowed THEN 0 ELSE 401
           /\ reqPc' = IF v.allowed THEN passed ELSE "answered"
           /\ rateLimitRejections' =
                 IF v.allowed THEN rateLimitRejections ELSE rateLimitRejections + 1
    /\ UNCHANGED <<apiKeys, now, reqKey, rateLimitedCount>>
    /\ UNCHANGED <<streamVars, dispatchVars, build, translateVars, raceVars, limiterVars>>

\* no check of a request is under way
Arriving == reqPc \in {"idle", "answered", "admitted"}

\* apiKeyAuthMiddleware on a new request to a protected path: only the
\* handler of /v1/messages checks the credential again
MiddlewareCheck(k, path) ==
    /\ build = "part_002"
    /\ Arriving
    /\ IF path = "/v1/messages"
       THEN Authenticate(k, "handler", "mwAllow")
       ELSE Authenticate(k, "admitted", "mwAllowLast")

\* part_003:69-75: the middleware's call of validateAPIKey returns
MiddlewareAllow ==
    /\ reqPc \in {"mwAllow", "mwAllowLast"}
    /\ AuthenticateAllow(IF reqPc = "mwAllow" THEN "handler" ELSE "admitted", reqPc)

\* api.go:154-174: messagesHandler on the request the middleware passed on
HandlerCheck(k) ==
    /\ reqPc = "handler"
    /\ k = reqKey
    /\ Authenticate(k, "admitted", "hAllow")

\* README.md:859-873: the messagesHandler(w, r) that main.go:181 registers,
\* on a new request. It does not call validateAPIKey: a request without a
\* credential header is answered 401 only when the server has no key of its
\* own, and any credential is passed on
MessagesHandler(k) ==
    /\ build = "main.go"
    /\ Arriving
    /\ reqKey' = k
    /\ IF k = "" /\ configAPIKey = ""
       THEN /\ authStatus' = 401
            /\ reqPc' = "answered"
       ELSE /\ authStatus' = 0
            /\ reqPc' = "admitted"
    /\ lastCall' = NoCall
    /\ UNCHANGED <<apiKeys, keyLimiters, now, rateLimitedCount, rateLimitRejections>>
    /\ UNCHANGED <<streamVars, dispatchVars, build, translateVars, raceVars, limiterVars>>

\* api.go:169-174: the handler's call of validateAPIKey returns
HandlerAllow ==
    /\ reqPc = "hAllow"
    /\ AuthenticateAllow("admitted", "hAllow")

\* auth.go:112-118 in the goroutine of another request: the limiter of k is
\* made
ConcurrentLookup(k) ==
    /\ k \notin DOMAIN keyLimiters
    /\ LET e == enterValidate(apiKeys, keyLimiters, k, now)
       IN  /\ e.called
           /\ keyLimiters' = e.limiters
    /\ UNCHANGED <<apiKeys, now, reqPc, reqKey, authStatus, lastCall,
                   rateLimitedCount, rateLimitRejections>>
    /\ UNCHANGED <<streamVars, dispatchVars, build, translateVars, raceVars, limiterVars>>

\* auth.go:120 in the goroutine of another request with the same credential,
\* while this request is under way: Allow on the limiter
ConcurrentAllow(k) ==
    /\ ~Arriving
    /\ k = reqKey
    /\ rateLimitRejections < MaxRejections
    /\ k \in DOMAIN keyLimiters
    /\ ~keyLimiters[k].nil
    /\ LET v == allowValidate(keyLimiters, k, now)
       IN  /\ keyLimiters' = v.limiters
           /\ rateLimitRejections' =
                 IF v.allowed THEN rateLimitRejections ELSE rateLimitRejections + 1
    /\ UNCHANGED <<apiKeys, now, reqPc, reqKey, authStatus, lastCall, rateLimitedCount>>
    /\ UNCHANGED <<streamVars, dispatchVars, build, translateVars, raceVars, limiterVars>>

----------------------------------------------------------------------------
(* The global limiter's steps *)

\* calls of setupRateLimiter in one run
MaxSetups == 2

\* after main(): part_002 reads RATE_LIMIT and sets the flag of proxy.go:32,
\* main.go calls updateConfig(.., initialRPM) and has no such flag
InitLimiter ==
    /\ ProxyIdle
    /\ AuthIdle
    /\ build \in Builds
    /\ \E rpm \in RPMs :
          /\ rateLimitEnabled = (build = "part_002" /\ rpm > 0)
          /\ configRateLimit = (IF build = "main.go" THEN rpm ELSE 0)
          /\ configAPIKey \in (IF build = "main.go" THEN ServerKeys ELSE {""})
          /\ chans = (IF rpm > 0 THEN <<makeLimiter(rpm)>> ELSE <<>>)
          /\ limiter = (IF rpm > 0 THEN 1 ELSE 0)
          /\ lastOp = (IF rpm > 0 THEN Op("setup", 1) ELSE Op("none", 0))
    /\ lpc = "idle"
    /\ waitCh = 0
    /\ TranslateIdle
    /\ RaceIdle

\* main.go:41-53: updateConfig stores the key, and sets the limiter up anew
\* when the rate differs from config.RateLimit
UpdateConfig(newKey, newRate) ==
    /\ build = "main.go"
    /\ configAPIKey' = newKey
    /\ IF newRate # configRateLimit
       THEN /\ Len(chans) < MaxSetups
            /\ configRateLimit' = newRate
            /\ LET l == setupRateLimiter(chans, limiter, newRate)
               IN  /\ chans' = l.chans
                   /\ limiter' = l.limiter
                   /\ lastOp' = Op("setup", l.limiter)
       ELSE UNCHANGED <<configRateLimit, chans, limiter, lastOp>>
    /\ UNCHANGED <<rateLimitEnabled, lpc, waitCh>>
    /\ UNCHANGED <<streamVars, dispatchVars, build, translateVars, raceVars, authVars>>

\* the steps of the authentication, and the server key is set anew
NextAuth ==
    \/ \E d \in Delays : Tick(d)
    \/ \E k \in Tokens, path \in ProtectedPaths : MiddlewareCheck(k, path)
    \/ MiddlewareAllow
    \/ \E k \in Tokens : HandlerCheck(k)
    \/ HandlerAllow
    \/ \E k \in Tokens : MessagesHandler(k)
    \/ \E key \in ServerKeys : UpdateConfig(key, configRateLimit)
    \/ \E k \in Tokens : ConcurrentLookup(k)
    \/ \E k \in Tokens : ConcurrentAllow(k)

SpecAuth == InitAuth /\ [][NextAuth]_vars

\* a tick whose send is not dropped when the bucket is full
RefillerTick_noDrop(id) ==
    /\ id \in DOMAIN chans
    /\ chans[id].refiller \in {"running", "stopping"}
    /\ chans' = [chans EXCEPT ![id].len = @ + 1]
    /\ lastOp' = Op("tick", id)
    /\ UNCHANGED <<rateLimitEnabled, configRateLimit, configAPIKey, limiter, lpc, waitCh>>
    /\ UNCHANGED <<streamVars, dispatchVars, build, translateVars, raceVars, authVars>>

\* ticker.C fires in the refiller of channel id; when the stop channel is
\* closed as well, select may still take the tick
RefillerTick(id) ==
    /\ id \in DOMAIN chans
    /\ chans[id].refiller \in {"running", "stopping"}
    /\ chans' = [chans EXCEPT ![id] = trySend(@)]
    /\ lastOp' = Op("tick", id)
    /\ UNCHANGED <<rateLimitEnabled, configRateLimit, configAPIKey, limiter, lpc, waitCh>>
    /\ UNCHANGED <<streamVars, dispatchVars, build, translateVars, raceVars, authVars>>

\* the refiller takes the closed stop channel and returns
RefillerExit(id) ==
    /\ id \in DOMAIN chans
    /\ chans[id].refiller = "stopping"
    /\ chans' = [chans EXCEPT ![id].refiller = "exited"]
    /\ lastOp' = Op("exit", id)
    /\ UNCHANGED <<rateLimitEnabled, configRateLimit, configAPIKey, limiter, lpc, waitCh>>
    /\ UNCHANGED <<streamVars, dispatchVars, build, translateVars, raceVars, authVars>>

\* the server of main.go calls a forwardOAMap of four arguments that is not
\* among the sources. By the specification (4.1) admission blocks on the
\* token channel, and a rate of 0 means unlimited: a request is held whenever
\* a limiter is set
checkOfMain == limiter # 0

\* proxy.go:44: if rateLimitEnabled && limiter != nil, in the server that
\* has this forwarder; the server of main.go holds a request by checkOfMain
limited == IF build = "main.go" THEN checkOfMain ELSE rateLimitEnabled /\ limiter # 0

\* proxy.go:44-45: a request that is held goes into the select with the
\* channel that limiter names at this moment
enterCheck ==
    /\ IF limited
       THEN /\ lpc' = "waiting"
            /\ waitCh' = limiter
            /\ lastOp' = Op("wait", limiter)
       ELSE /\ lpc' = "admitted"
            /\ waitCh' = 0
            /\ lastOp' = Op("pass", 0)
    /\ UNCHANGED <<rateLimitEnabled, configRateLimit, configAPIKey, chans, limiter>>

\* a request arrives at the rate limit check of forwardOAMap
LimiterEnter ==
    /\ lpc # "waiting"
    /\ enterCheck
    /\ UNCHANGED <<streamVars, dispatchVars, build, translateVars, raceVars, authVars>>

\* case <-limiter: a token is received
takeToken ==
    /\ lpc = "waiting"
    /\ chans[waitCh].len > 0
    /\ chans' = [chans EXCEPT ![waitCh].len = @ - 1]
    /\ lpc' = "admitted"
    /\ lastOp' = Op("acquire", waitCh)
    /\ UNCHANGED <<rateLimitEnabled, configRateLimit, configAPIKey, limiter, waitCh>>

\* case <-limiter: the waiting request takes a token and goes on
LimiterAcquire ==
    /\ takeToken
    /\ UNCHANGED <<streamVars, dispatchVars, build, translateVars, raceVars, authVars>>

\* case <-r.Context().Done(): the wait ends without a token
cancelWait ==
    /\ lpc = "waiting"
    /\ lpc' = "rejected"
    /\ lastOp' = Op("canceled", waitCh)
    /\ UNCHANGED <<rateLimitEnabled, configRateLimit, configAPIKey, chans, limiter, waitCh>>

\* case <-r.Context().Done(): 499, the request ends without a token
LimiterCanceled ==
    /\ cancelWait
    /\ UNCHANGED <<streamVars, dispatchVars, build, translateVars, raceVars, authVars>>

\* another request receives a token from the limiter
OtherRequest ==
    /\ limited
    /\ chans[limiter].len > 0
    /\ chans' = [chans EXCEPT ![limiter].len = @ - 1]
    /\ lastOp' = Op("other", limiter)
    /\ UNCHANGED <<rateLimitEnabled, configRateLimit, configAPIKey, limiter, lpc, waitCh>>
    /\ UNCHANGED <<streamVars, dispatchVars, build, translateVars, raceVars, authVars>>

NextLimiter ==
    \/ \E r \in RPMs : UpdateConfig(configAPIKey, r)
    \/ \E id \in 1..MaxSetups : RefillerTick(id)
    \/ \E id \in 1..MaxSetups : RefillerExit(id)
    \/ LimiterEnter
    \/ LimiterAcquire
    \/ LimiterCanceled
    \/ OtherRequest

SpecLimiter == InitLimiter /\ [][NextLimiter]_vars

\* the scheduler runs a refiller whose ticker or stop channel is ready. A
\* request parked in the select is handed the next token that is sent: it is
\* not passed over for ever by requests that arrive later
FairLimiter ==
    /\ \A id \in 1..MaxSetups : WF_vars(RefillerTick(id)) /\ WF_vars(RefillerExit(id))
    /\ SF_vars(LimiterAcquire)

SpecLimiterFair == SpecLimiter /\ FairLimiter

----------------------------------------------------------------------------
(* One request through forwardOAMap, from its entry to its return *)

\* lines the bufio reader may hold when the client goes away
MaxBuffered == 2

\* values of RATE_LIMIT for the server that handles the request
ForwardRPMs == {0, 2}

InitForward ==
    /\ startedMessage   = InitState.startedMessage
    /\ lastUsage        = InitState.lastUsage
    /\ currentBlockType = InitState.currentBlockType
    /\ currentBlockIdx  = InitState.currentBlockIdx
    /\ hasToolUse       = InitState.hasToolUse
    /\ contentBuffer    = InitState.contentBuffer
    /\ currentToolIndex = InitState.currentToolIndex
    /\ w                = InitState.w
    /\ pc = "idle"
    /\ inp = <<>>
    /\ marks = <<>>
    /\ \E streaming \in BOOLEAN : IsDispatch(EntryDispatch(streaming))
    /\ AuthIdle
    /\ build \in Builds
    /\ \E rpm \in ForwardRPMs :
          /\ rateLimitEnabled = (build = "part_002" /\ rpm > 0)
          /\ configRateLimit = (IF build = "main.go" THEN rpm ELSE 0)
          /\ configAPIKey \in (IF build = "main.go" THEN ServerKeys ELSE {""})
          /\ chans = (IF rpm > 0 THEN <<makeLimiter(rpm)>> ELSE <<>>)
          /\ limiter = (IF rpm > 0 THEN 1 ELSE 0)
          /\ lastOp = (IF rpm > 0 THEN Op("setup", 1) ELSE Op("none", 0))
    /\ lpc = "idle"
    /\ waitCh = 0
    /\ TranslateIdle
    /\ RaceIdle

\* proxy.go:44: the rate limit check
RateLimitCheck ==
    /\ dpc = "limit"
    /\ enterCheck
    /\ BecomeDispatch([Dispatch EXCEPT !.dpc = IF limited
                                              THEN "select" ELSE "marshal"])
    /\ UNCHANGED <<streamVars, build, translateVars, raceVars, authVars>>

\* proxy.go:46: the request receives a token and goes on
RateLimitToken ==
    /\ dpc = "select"
    /\ takeToken
    /\ BecomeDispatch([Dispatch EXCEPT !.dpc = "marshal", !.token = TRUE])
    /\ UNCHANGED <<streamVars, build, translateVars, raceVars, authVars>>

\* a wait that is given up without an answer: the request goes on
RateLimitCanceled_proceeds ==
    /\ dpc = "select"
    /\ canceled
    /\ cancelWait
    /\ BecomeDispatch([Dispatch EXCEPT !.dpc = "marshal", !.canceled = FALSE])
    /\ UNCHANGED <<streamVars, build, translateVars, raceVars, authVars>>

\* proxy.go:48-50: the client is gone, 499 and return
RateLimitCanceled ==
    /\ dpc = "select"
    /\ canceled
    /\ cancelWait
    /\ BecomeDispatch(httpError(Dispatch, "client disconnected waiting for rate limit", 499))
    /\ UNCHANGED <<streamVars, build, translateVars, raceVars, authVars>>

\* proxy.go:68-76: a buffer is taken from the pool, its return is deferred,
\* and the request map is encoded into it
Marshal(ok) ==
    /\ dpc = "marshal"
    /\ LET d1 == [Dispatch EXCEPT !.bufGets = @ + 1, !.byteBuf = "",
                                  !.defers = Append(@, "put")]
       IN  BecomeDispatch(IF ok THEN [d1 EXCEPT !.byteBuf = Marshaled, !.dpc = "attempt"]
                          ELSE httpError(d1, "error processing request", 500))
    /\ UNCHANGED <<streamVars, serverVars, translateVars, raceVars>>

\* proxy.go:82-86: http.NewRequestWithContext rejects the URL; the URL is the
\* same in every iteration, so this happens in the first one or never
NewRequestFails ==
    /\ dpc = "attempt"
    /\ loopI = 0
    /\ BecomeDispatch(httpError(Dispatch, "invalid request", 500))
    /\ UNCHANGED <<streamVars, serverVars, translateVars, raceVars>>

\* the client goes away while the stream is translated; n lines that came
\* from the upstream before are still in the reader's buffer
StreamCancel(n) ==
    /\ dpc = "streaming"
    /\ pc = "reading"
    /\ ~canceled
    /\ BecomeDispatch([Dispatch EXCEPT !.canceled = TRUE, !.buffered = n])
    /\ UNCHANGED <<streamVars, serverVars, translateVars, raceVars>>

NextForward ==
    \/ RateLimitCheck
    \/ RateLimitToken
    \/ RateLimitCanceled
    \/ \E ok \in BOOLEAN : Marshal(ok)
    \/ NewRequestFails
    \/ \E o \in Upstreams : Attempt(o)
    \/ \E n \in ReadLengths : ReadBody(n)
    \/ BackoffElapsed
    \/ BackoffCanceled
    \/ ClientCancel
    \/ \E n \in 0..MaxBuffered : StreamCancel(n)
    \/ \E c \in DispatchChunks : ReadChunk(c)
    \/ SkipLine
    \/ ReadDone
    \/ ReadError
    \/ OtherRequest
    \/ RefillerTick(1)

SpecForward == InitForward /\ [][NextForward]_vars

----------------------------------------------------------------------------
(* Observations on the event sequence *)

IsStart(e) == e.type = "content_block_start"
IsStop(e)  == e.type = "content_block_stop"
IsDelta(e) == e.type = "content_block_delta"
IsBlockEvent(e) == IsStart(e) \/ IsDelta(e) \/ IsStop(e)

Positions(evs, P(_)) == {p \in 1..Len(evs) : P(evs[p])}
Count(evs, P(_)) == Cardinality(Positions(evs, P))

IsMessageStart(e) == e.type = "message_start"
IsMessageDelta(e) == e.type = "message_delta"
IsMessageStop(e)  == e.type = "message_stop"
IsToolStart(e)    == IsStart(e) /\ e.kind = "tool_use"

\* the events of evs that satisfy P, in order
Select(evs, P(_)) ==
    LET ps == Positions(evs, P)
        nth(k) == CHOOSE p \in ps : Cardinality({q \in ps : q < p}) = k - 1
    IN  [k \in 1..Cardinality(ps) |-> evs[nth(k)]]

\* the events written while line i of inp was handled
Segment(i) == SubSeq(w, (IF i = 1 THEN 0 ELSE marks[i - 1]) + 1, marks[i])

----------------------------------------------------------------------------
(* C1 *)

\* C1: when the stream ended with [DONE], every content_block_start(i) in the
\* output is followed by exactly one content_block_stop(i).
C1_StartStoppedExactlyOnce ==
    pc = "done" =>
        \A p \in Positions(w, IsStart) :
            Cardinality({q \in Positions(w, IsStop) :
                            q > p /\ w[q].index = w[p].index}) = 1

(* C2 *)

\* C2: no content_block_start is written while an earlier started block has
\* not yet received its content_block_stop.
C2_AtMostOneBlockOpen ==
    \A p \in Positions(w, IsStart) :
        \A q \in Positions(w, IsStart) :
            q < p => \E r \in Positions(w, IsStop) :
                        q < r /\ r < p /\ w[r].index = w[q].index

(* C3 *)

StartIndices(evs) == [k \in 1..Count(evs, IsStart) |-> Select(evs, IsStart)[k].index]

\* C3: every step only appends to the output; the content_block_start events
\* carry the indices 0, 1, 2, ... in order; current_block_index never
\* decreases and grows by exactly the number of blocks the step opened.
C3_IndicesConsecutive ==
    [][ /\ SubSeq(w', 1, Len(w)) = w
        /\ StartIndices(w') = [k \in 1..Count(w', IsStart) |-> k - 1]
        /\ currentBlockIdx' >= currentBlockIdx
        /\ currentBlockIdx' - currentBlockIdx = Count(w', IsStart) - Count(w, IsStart)
        /\ currentBlockIdx' = Count(w', IsStart) - 1 ]_vars

\* a thinking block, a tool_use block and an on-demand text block were opened
C3_Witness ==
    /\ \E p \in Positions(w, IsStart) : w[p].kind = "thinking"
    /\ \E p \in Positions(w, IsStart) : w[p].kind = "tool_use"
    /\ \E p \in Positions(w, IsStart) : w[p].kind = "text"
    /\ currentBlockIdx >= 2

(* C4 *)

\* C4: message_start is written at most once, and before every
\* content_block_start, content_block_delta and content_block_stop.
C4_MessageStartOnceAndFirst ==
    /\ Count(w, IsMessageStart) <= 1
    /\ \A p \in Positions(w, IsBlockEvent) :
           \E q \in Positions(w, IsMessageStart) : q < p

\* three chunks with choices were handled and blocks were written
C4_Witness ==
    /\ Cardinality({i \in 1..Len(inp) : inp[i].kind = "chunk" /\ inp[i].chunk.hasChoices}) >= 3
    /\ Count(w, IsMessageStart) = 1
    /\ Count(w, IsBlockEvent) >= 3

(* C5 *)

\* C5: after [DONE], message_stop occurs exactly once and is the last event,
\* the only message_delta is the event right before it and carries the final
\* stop_reason and output token count, and no content_block event follows it.
C5_TrailerOrder ==
    pc = "done" =>
        /\ Count(w, IsMessageStop) = 1
        /\ Count(w, IsMessageDelta) = 1
        /\ Len(w) >= 2
        /\ IsMessageStop(w[Len(w)])
        /\ IsMessageDelta(w[Len(w) - 1])
        /\ w[Len(w) - 1].kind = (IF hasToolUse THEN "tool_use" ELSE "end_turn")
        /\ w[Len(w) - 1].output_tokens = lastUsage.output
        /\ \A p \in Positions(w, IsBlockEvent) : p < Len(w) - 1

\* [DONE] arrived with text still held back in the buffer, so that [DONE]
\* itself wrote content_block events before the trailer
C5_Witness ==
    /\ pc = "done"
    /\ Len(inp) >= 2
    /\ \E p \in Positions(Segment(Len(inp)), IsDelta) : TRUE
    /\ lastUsage.output > 0

(* C6 *)

\* C6: has_tool_use is true exactly when a tool_use content_block_start has
\* been written, and after [DONE] the stop_reason of the message_delta is
\* tool_use if a tool_use block was opened and end_turn otherwise.
C6_StopReason ==
    /\ hasToolUse <=> (Count(w, IsToolStart) > 0)
    /\ pc = "done" =>
          \A p \in Positions(w, IsMessageDelta) :
              w[p].kind = (IF Count(w, IsToolStart) > 0 THEN "tool_use" ELSE "end_turn")

\* a stream with a tool_use block that was closed again by later text
C6_Witness ==
    /\ pc = "done"
    /\ Count(w, IsToolStart) = 1
    /\ currentBlockIdx >= 1
    /\ \E p \in Positions(w, IsStart) :
          w[p].kind = "text" /\ \E q \in Positions(w, IsToolStart) : q < p
    /\ w[Len(w) - 1].kind = "tool_use"

----------------------------------------------------------------------------
(* Text carried by the stream *)

IsTextDelta(e) == IsDelta(e) /\ e.kind \in {"text_delta", "thinking_delta"}

Texts(evs) == [k \in 1..Len(evs) |-> evs[k].text]

\* the text and thinking fragments written to the client, concatenated
Emitted(evs) == Flatten(Texts(Select(evs, IsTextDelta)))

\* reasoning and content fragment of one upstream line, as the passes read them
LineText(line) ==
    IF line.kind = "chunk" /\ line.chunk.hasChoices
    THEN (IF line.chunk.reasoning_content = <<>>
          THEN line.chunk.reasoning ELSE line.chunk.reasoning_content)
         \o line.chunk.content
    ELSE <<>>

Upstream(lines) == Flatten([k \in 1..Len(lines) |-> LineText(lines[k])])

\* s with every <think> and </think> marker removed, scanning left to right
RECURSIVE StripTags(_)
StripTags(s) ==
    LET a == Index(s, ThinkOpen)
        b == Index(s, ThinkClose)
    IN  IF a = -1 /\ b = -1 THEN s
        ELSE IF a # -1 /\ (b = -1 \/ a < b)
             THEN Slice(s, 0, a) \o StripTags(Slice(s, a + Len(ThinkOpen), Len(s)))
             ELSE Slice(s, 0, b) \o StripTags(Slice(s, b + Len(ThinkClose), Len(s)))

IsPrefix(a, b) == Len(a) <= Len(b) /\ SubSeq(b, 1, Len(a)) = a

\* one entry per opened block, in order: its type and its concatenated payload
Summary(evs) ==
    LET starts == Select(evs, IsStart)
        payload(i) == LET P(e) == IsDelta(e) /\ e.index = i
                      IN  Flatten(Texts(Select(evs, P)))
    IN  [k \in 1..Len(starts) |->
            [kind |-> starts[k].kind, payload |-> payload(starts[k].index)]]

\* the events written for one content string that arrives in a single chunk
RunWhole(content) == handleDone(processChunk(InitState, ContentChunk(content))).w

(* C7 *)

\* C7: after [DONE], the text_delta and thinking_delta fragments, concatenated
\* in emission order, are the upstream reasoning and content fragments with
\* the <think> and </think> markers removed.
C7_NoByteLost ==
    pc = "done" => Emitted(w) = StripTags(Upstream(inp))

(* C8 *)

IsReasoningOnly(line) ==
    /\ line.kind = "chunk" /\ line.chunk.hasChoices
    /\ line.chunk.reasoning_content # <<>> \/ line.chunk.reasoning # <<>>
    /\ line.chunk.content = <<>> /\ line.chunk.tool_calls = <<>>

IsPlainContentOnly(line) ==
    /\ line.kind = "chunk" /\ line.chunk.hasChoices
    /\ line.chunk.reasoning_content = <<>> /\ line.chunk.reasoning = <<>>
    /\ line.chunk.content # <<>> /\ ~ContainsByte(line.chunk.content, "<")
    /\ line.chunk.tool_calls = <<>>

\* C8: a chunk that carries only reasoning, followed by a chunk that carries
\* only plain content, yields the reasoning as a thinking_delta and the
\* content as the single text_delta of a new, later text block; the stream
\* reasoning "R", content "A", [DONE] yields thinking(0) and text(1) with one
\* delta each.
C8_ReasoningThenText ==
    /\ \A i \in 1..(Len(inp) - 1) :
          IsReasoningOnly(inp[i]) /\ IsPlainContentOnly(inp[i + 1]) =>
              LET r == LineText(inp[i])
                  seg == Segment(i)
                  b == seg[Len(seg)].index
              IN  /\ seg[Len(seg)] = EvDelta(b, "thinking_delta", r)
                  /\ Segment(i + 1) = << EvBlockStop(b),
                                         EvBlockStart(b + 1, "text"),
                                         EvDelta(b + 1, "text_delta", inp[i + 1].chunk.content) >>
    /\ (pc = "done" /\ Len(inp) = 3
          /\ inp[1] = Line("chunk", Chunk(<<"R">>, <<>>, <<>>, <<>>))
          /\ inp[2] = Line("chunk", ContentChunk(<<"A">>)))
        => Summary(w) = << [kind |-> "thinking", payload |-> <<"R">>],
                           [kind |-> "text", payload |-> <<"A">>] >>

(* C9 *)

ContentsOf(lines) ==
    Select([k \in 1..Len(lines) |-> lines[k].chunk.content], LAMBDA c : c # <<>>)

\* C9: after [DONE], a content string that arrived in fragments yields the
\* same blocks with the same payloads as the string arriving in one chunk;
\* what was written after each fragment is a prefix of the final text, so
\* no delta holds part of a tag that a later fragment completes; `<thi` then
\* `nk>hello</think>` yields one thinking block with payload hello.
C9_SplitIndependent ==
    pc = "done" =>
        LET frags == ContentsOf(inp)
            whole == Flatten(frags)
        IN  /\ Summary(w) = Summary(RunWhole(whole))
            /\ \A i \in 1..Len(inp) :
                  IsPrefix(Emitted(SubSeq(w, 1, marks[i])), StripTags(whole))
            /\ frags = << <<"<", "t", "h", "i">>,
                          <<"n", "k", ">", "h", "e", "l", "l", "o">> \o ThinkClose >>
                => Summary(w) = << [kind |-> "thinking",
                                    payload |-> <<"h", "e", "l", "l", "o">>] >>

\* a <think> tag arrived split over two fragments, and text was emitted
C9_Witness ==
    /\ pc = "done"
    /\ Len(inp) >= 3
    /\ inp[1].chunk.content = <<"<", "t", "h", "i">>
    /\ Index(inp[1].chunk.content \o inp[2].chunk.content, ThinkOpen) = 0
    /\ \E k \in 1..Len(Summary(w)) :
          Summary(w)[k].kind = "thinking" /\ Summary(w)[k].payload # <<>>

(* C10 *)

IsFragmentEntry(tc, k) == tc.index = k /\ tc.id = "" /\ tc.arguments # <<>>

\* a line that carries nothing but argument fragments for tool index k
IsFragmentLine(line, k) ==
    \/ line.kind = "skip"
    \/ /\ line.kind = "chunk"
       /\ \/ ~line.chunk.hasChoices
          \/ /\ line.chunk.reasoning_content = <<>> /\ line.chunk.reasoning = <<>>
             /\ line.chunk.content = <<>>
             /\ \A n \in 1..Len(line.chunk.tool_calls) :
                   IsFragmentEntry(line.chunk.tool_calls[n], k)

ArgsOf(tcs) == [n \in 1..Len(tcs) |-> tcs[n].arguments]

FragmentsOfLine(line) ==
    IF line.kind = "chunk" /\ line.chunk.hasChoices
    THEN ArgsOf(line.chunk.tool_calls) ELSE <<>>

\* C10: when entry e of line i announces a tool call (it has an id) and every
\* later entry of that line and of lines i+1..j is an argument fragment for
\* the same tool index, the output from the announcement to the end of line
\* j is one tool_use content_block_start with that id and name and the next
\* block index, followed by one input_json_delta per fragment, in order, each
\* with that block's index.
C10_ToolArgumentsStreamed ==
    \A i \in 1..Len(inp) : \A j \in i..Len(inp) :
        inp[i].kind = "chunk" /\ inp[i].chunk.hasChoices =>
            LET tcs == inp[i].chunk.tool_calls
            IN  \A e \in 1..Len(tcs) :
                    (/\ tcs[e].id # ""
                     /\ \A n \in (e + 1)..Len(tcs) : IsFragmentEntry(tcs[n], tcs[e].index)
                     /\ \A l \in (i + 1)..j : IsFragmentLine(inp[l], tcs[e].index))
                    =>
                    LET own   == IF tcs[e].arguments # <<>>
                                 THEN <<tcs[e].arguments>> ELSE <<>>
                        frags == own \o ArgsOf(SubSeq(tcs, e + 1, Len(tcs)))
                                     \o Flatten([l \in 1..(j - i) |->
                                                    FragmentsOfLine(inp[i + l])])
                        startPos == marks[i] - (Len(tcs) - e) - Len(own)
                        b == Count(SubSeq(w, 1, startPos), IsStart) - 1
                    IN  /\ startPos >= 1
                        /\ SubSeq(w, startPos, marks[j])
                             = <<EvToolStart(b, tcs[e].id, tcs[e].name)>>
                               \o [n \in 1..Len(frags) |->
                                      EvDelta(b, "input_json_delta", frags[n])]

\* the announcement of tool X at index 0 was followed by two chunks with the
\* argument fragments `{a:` and `1}`
C10_Witness ==
    /\ Len(inp) = 3
    /\ inp[1] = Line("chunk", ToolChunk(<<ToolX>>))
    /\ inp[2] = Line("chunk", ToolChunk(<<ToolXA>>))
    /\ inp[3] = Line("chunk", ToolChunk(<<ToolXB>>))
    /\ Flatten(Texts(Select(w, IsDelta))) = ArgsA \o ArgsB
    /\ Count(w, IsToolStart) = 1

----------------------------------------------------------------------------
(* Observations on the dispatcher *)

LastPost == posts[Len(posts)]

IsRetryable(o) == o.err \/ o.status = 429 \/ o.status >= 500

CancelMessage == <<"request canceled during retry", "\n">>

(* C11 *)

\* C11 as stated: at most maxRetries = 3 upstream POSTs per client request.
C11_AtMostMaxRetriesAttempts == Len(posts) <= maxRetries

\* C11 amended: at most maxRetries + 1 = 4 upstream POSTs per client request,
\* the first attempt and at most maxRetries retries.
C11_AtMostMaxRetriesPlusOne == Len(posts) <= maxRetries + 1

\* four attempts were made: transport failures and 429/5xx answers, mixed
C11_Witness ==
    /\ Len(posts) = maxRetries + 1
    /\ \E k \in 1..Len(posts) : posts[k].err
    /\ \E k \in 1..Len(posts) : ~posts[k].err /\ posts[k].status = 429
    /\ \E k \in 1..Len(posts) : ~posts[k].err /\ posts[k].status >= 500

(* C12 *)

\* C12: every attempt that was followed by another one failed at the
\* transport level or was answered 429 or >= 500, and once an attempt is
\* answered with any other status the retry loop is over.
C12_RetryOnlyRetryable ==
    /\ \A k \in 1..(Len(posts) - 1) : IsRetryable(posts[k])
    /\ (Len(posts) > 0 /\ ~IsRetryable(LastPost)) => dpc \notin {"attempt", "backoff"}

\* a 4xx answer other than 429 ended the loop after two retries
C12_Witness ==
    /\ Len(posts) = 3
    /\ ~LastPost.err /\ LastPost.status = 404
    /\ dpc = "returned"

(* C13 *)

\* C13: while the retry loop is running nothing has been written to the
\* client; the response written afterwards takes its status and body from
\* the last upstream response and from no earlier one; after 429 then 200 in
\* streaming mode the client has status 200 and one message_start.
C13_RetriesInvisible ==
    /\ dpc \in {"attempt", "backoff"} =>
          clientStatus = 0 /\ clientCtype = "" /\ clientBody = <<>> /\ w = <<>>
    /\ (dpc \in {"returned", "streaming"} /\ ~LastPost.err) =>
          \A k \in 1..(Len(posts) - 1) :
              (~posts[k].err /\ posts[k] # LastPost) =>
                  clientStatus # posts[k].status /\ clientBody # posts[k].body
    /\ (dpc = "streaming" /\ Len(posts) = 2 /\ posts[1].status = 429) =>
          /\ clientStatus = 200 /\ clientBody = <<>>
          /\ Count(w, IsMessageStart)
               = (IF \E k \in 1..Len(inp) : inp[k].kind = "chunk" THEN 1 ELSE 0)

\* 429 on the first attempt, 200 on the second, and the stream ran to [DONE]
C13_Witness ==
    /\ Len(posts) = 2 /\ posts[1].status = 429 /\ posts[2].status = 200
    /\ pc = "done"
    /\ Count(w, IsMessageStart) = 1
    /\ Count(w, IsDelta) >= 2

(* C14 *)

\* C14: when the dispatcher returned after an upstream response with a
\* status other than 200, the client has that status, that body and, when the
\* upstream sent one, that Content-Type.
C14_ErrorForwardedVerbatim ==
    (/\ dpc = "returned"
     /\ Len(posts) > 0 /\ ~LastPost.err /\ LastPost.status # 200
     /\ clientBody # CancelMessage)
    => /\ clientStatus = LastPost.status
       /\ clientBody = LastPost.body
       /\ LastPost.ctype # "" => clientCtype = LastPost.ctype

(* C15 *)

\* C15: the dispatcher never reads the status of a missing response, and when
\* the attempt with i = maxRetries fails at the transport level the
\* dispatcher has returned and the client has status 502.
C15_FinalFailure502 ==
    /\ dpc # "panic"
    /\ (Len(posts) = maxRetries + 1 /\ LastPost.err) =>
          dpc = "returned" /\ clientStatus = 502

\* three retryable outcomes, then a transport failure on the last attempt
C15_Witness ==
    /\ Len(posts) = maxRetries + 1
    /\ LastPost.err
    /\ \E k \in 1..maxRetries : ~posts[k].err
    /\ clientStatus = 502

(* C16 *)

\* C16: from a state in which the dispatcher waits between attempts and the
\* client has canceled, the next step returns with status 499 and issues no
\* upstream POST, and after a return no POST is ever issued.
C16_CancelDuringBackoff ==
    [][ /\ (dpc = "backoff" /\ canceled) =>
              dpc' = "returned" /\ clientStatus' = 499 /\ posts' = posts
        /\ dpc = "returned" => posts' = posts /\ dpc' = "returned" ]_vars

\* the client canceled during the second wait and got 499
C16_Witness ==
    /\ dpc = "returned"
    /\ clientStatus = 499
    /\ Len(posts) = 2
    /\ ~LastPost.err

----------------------------------------------------------------------------
(* Observations on authentication *)

\* a credentials table is configured
HasKeys == DOMAIN apiKeys # {}

\* the call just made was for a token the table does not hold
CallUnknown == lastCall.key \notin DOMAIN apiKeys

\* the call just made was for a credential that is switched off
CallInactive == lastCall.key \in DOMAIN apiKeys /\ ~apiKeys[lastCall.key].Active

\* the call just made found the bucket of an active credential empty
CallBucketEmpty ==
    /\ lastCall.key \in DOMAIN apiKeys
    /\ apiKeys[lastCall.key].Active
    /\ lastCall.called
    /\ refill(lastCall.rl, lastCall.t).tokens = 0

(* C17 *)
\* With a credentials table present, a request with an unknown token is
\* answered 401, one with a known but inactive credential is answered 401,
\* and one with a known, active credential whose bucket is empty is
\* answered 429.
C17_AuthStatusCodes ==
    (lastCall # NoCall /\ HasKeys) =>
        /\ CallUnknown => (reqPc = "answered" /\ authStatus = 401)
        /\ CallInactive => (reqPc = "answered" /\ authStatus = 401)
        /\ CallBucketEmpty => (reqPc = "answered" /\ authStatus = 429)

(* C18 *)
\* validateAPIKey admits every token when no credential table is
\* configured, never admits an inactive credential, and rejecting an unknown
\* or inactive credential consumes no token and creates no limiter.
C18_LegacyAndInactive ==
    lastCall # NoCall =>
        /\ ~HasKeys => lastCall.allowed
        /\ (HasKeys /\ CallInactive) => ~lastCall.allowed
        /\ (HasKeys /\ (CallUnknown \/ CallInactive)) =>
               (~lastCall.called /\ lastCall.after = lastCall.before)

\* an inactive credential is turned away while other credentials have buckets
C18_Witness ==
    /\ HasKeys
    /\ lastCall # NoCall
    /\ CallInactive
    /\ ~lastCall.allowed
    /\ lastCall.before # NoLimiters
    /\ reqPc = "answered"

(* C19 *)
\* After any sequence of Allow() calls 0 <= tokens <= max holds for every
\* per-credential limiter; each Allow() first adds
\* floor((now - last_refill)/interval) tokens capped at max, then returns
\* true and takes exactly one token if tokens > 0, else returns false and
\* leaves tokens at 0.
C19_AllowBucket ==
    /\ \A k \in DOMAIN keyLimiters :
          ~keyLimiters[k].nil =>
              (0 <= keyLimiters[k].tokens /\ keyLimiters[k].tokens <= keyLimiters[k].max)
    /\ lastCall.called =>
          LET b      == lastCall.rl
              add    == intervals(lastCall.t - b.lastRef, b.rate)
              filled == Min({b.tokens + add, b.max})
          IN  /\ lastCall.allowed <=> filled > 0
              /\ lastCall.rl2.tokens = (IF filled > 0 THEN filled - 1 ELSE 0)
              /\ lastCall.after[lastCall.key] = lastCall.rl2

\* an Allow() whose refill ran into the cap, and one token was taken
C19_Witness ==
    /\ lastCall.called
    /\ lastCall.allowed
    /\ lastCall.rl.tokens > 0
    /\ lastCall.rl.tokens
         + intervals(lastCall.t - lastCall.rl.lastRef, lastCall.rl.rate) > lastCall.rl.max
    /\ lastCall.rl2.tokens = lastCall.rl.max - 1

----------------------------------------------------------------------------
(* Observations on the global limiter *)

\* the number of tokens in the bucket of channel id
LenOf(cs, id) == cs[id].len

(* C20 *)
\* The global limiter's bucket never holds more than burst = min(5, RPM)
\* tokens: it starts full, the refiller adds at most one token per tick with
\* a non-blocking send that drops the token when the bucket is full, and a
\* token is removed only by an admitted request.
C20_BucketBounded ==
    /\ [](\A id \in DOMAIN chans :
            /\ chans[id].cap = Min({5, chans[id].rpm})
            /\ 0 <= chans[id].len /\ chans[id].len <= chans[id].cap
            /\ (lastOp = Op("setup", id)) => chans[id].len = chans[id].cap)
    /\ [][ /\ \A id \in DOMAIN chans' \ DOMAIN chans :
                 chans'[id].len = chans'[id].cap
           /\ \A id \in DOMAIN chans :
                 /\ LenOf(chans', id) > LenOf(chans, id) =>
                       (lastOp' = Op("tick", id) /\ LenOf(chans', id) = LenOf(chans, id) + 1)
                 /\ (lastOp' = Op("tick", id) /\ LenOf(chans, id) = chans[id].cap) =>
                       LenOf(chans', id) = chans[id].cap
                 /\ LenOf(chans', id) < LenOf(chans, id) =>
                       /\ \/ /\ lastOp' = Op("acquire", id)
                             /\ lpc = "waiting" /\ lpc' = "admitted"
                          \/ /\ lastOp' = Op("other", id)
                             /\ limited /\ id = limiter
                       /\ LenOf(chans', id) = LenOf(chans, id) - 1 ]_vars

\* the refiller ticked on a full bucket and the token was dropped
C20_Witness ==
    /\ limiter # 0
    /\ lastOp = Op("tick", limiter)
    /\ chans[limiter].len = chans[limiter].cap
    /\ lpc = "admitted"

----------------------------------------------------------------------------
(* C30 *)
\* When reading the upstream stream fails before [DONE], the loop exits
\* without emitting any further event: nothing is written in the step that
\* meets the read error, nor afterwards.
C30_NoEventAfterReadError == [][pc' = "closed" => w' = w]_vars

\* the stream broke off while a block was open: no stop event, no trailer
C30_Witness ==
    /\ pc = "closed"
    /\ dpc = "returned"
    /\ startedMessage
    /\ currentBlockType # ""
    /\ Count(w, IsStop) = 0
    /\ Count(w, IsMessageDelta) = 0
    /\ Count(w, IsMessageStop) = 0

----------------------------------------------------------------------------
(* Observations on one request *)

RateLimitMessage == <<"client disconnected waiting for rate limit", "\n">>

\* the check of proxy.go:44 sends the request into the select
LimiterOn == limited

NoOpenBody == \A k \in DOMAIN bodies : bodies[k] # "open"

(* C21 *)
\* With the global limiter enabled, a request reaches the upstream only
\* after taking one token from the bucket; a request whose client cancels
\* while waiting fails with 499 without any upstream request being issued
\* and without taking a pooled buffer.
C21_TokenBeforeUpstream ==
    /\ []((LimiterOn /\ posts # <<>>) => token)
    /\ []((clientStatus = 499 /\ clientBody = RateLimitMessage) =>
              (dpc = "returned" /\ posts = <<>> /\ bufGets = 0 /\ ~token))
    /\ [][ /\ token' # token =>
                (token' /\ chans'[waitCh].len = chans[waitCh].len - 1)
           /\ (dpc = "select" /\ canceled /\ chans[waitCh].len = 0 /\ dpc' # dpc) =>
                (clientStatus' = 499 /\ clientBody' = RateLimitMessage) ]_vars

\* the client left while the request waited at an empty bucket
C21_Witness ==
    /\ LimiterOn
    /\ lpc = "rejected"
    /\ canceled
    /\ chans[waitCh].len = 0
    /\ clientStatus = 499
    /\ clientBody = RateLimitMessage
    /\ posts = <<>>
    /\ bufGets = 0

(* C27 *)
\* Cancellation is monotonic in the streaming path: once the client's
\* cancellation has occurred, no further event is written to the client
\* response.
C27_NoWriteAfterCancel == [][(canceled /\ dpc = "streaming") => w' = w]_vars

(* C28 *)
\* Every upstream response body obtained by the dispatcher is closed before
\* the next retry attempt starts and before the dispatcher returns, on
\* every exit path.
C28_BodiesClosed ==
    /\ dpc \in {"backoff", "attempt", "returned"} => NoOpenBody
    /\ dpc = "streaming" => \A k \in 1..(Len(bodies) - 1) : bodies[k] # "open"

\* a stream that followed a retried attempt has ended
C28_Witness ==
    /\ dpc = "returned"
    /\ pc = "done"
    /\ Len(posts) = 2
    /\ bodies = <<"closed", "closed">>

(* C29 *)
\* Every buffer taken from the buffer pool by the dispatcher is returned to
\* the pool exactly once by the time the dispatcher returns, on every exit
\* path; the marshaled bytes are reused unchanged for every attempt.
C29_BufferReturnedOnce ==
    /\ bufGets <= 1
    /\ bufPuts <= bufGets
    /\ dpc # "returned" => bufPuts = 0
    /\ dpc = "returned" => bufPuts = bufGets
    /\ \A k \in DOMAIN sent : sent[k] = Marshaled

\* the retries were used up: four attempts sent the same bytes, and the
\* buffer went back to the pool
C29_Witness ==
    /\ dpc = "returned"
    /\ clientStatus = 502
    /\ Len(sent) = maxRetries + 1
    /\ bufGets = 1
    /\ bufPuts = 1

----------------------------------------------------------------------------
(* C22 *)
\* Every request rejected by a rate limiter is counted in the rate-limited
\* counter and not in the upstream-error counter: the rate-limited counter
\* equals the number of rate-limit rejections so far.
C22_RateLimitedCounted ==
    /\ rateLimitedCount = rateLimitRejections
    /\ upstreamErrors = 0

\* ---------------------------------------------------------------------
\* The pure functions of the translation: getUpstreamForModel,
\* buildOpenAIMessages, the tool_choice of the upstream body and the
\* non-streaming response assembly.  Each is applied once to an argument
\* drawn from a bounded set.
\* ---------------------------------------------------------------------

\* install.go:117-127 ranges over at most this many routes
MaxRoutes == 2

\* regexp.Compile within the syntax the route patterns below use: an
\* unclosed group, a repetition with nothing to repeat and a repeated
\* repetition are errors
ValidPattern(p) ==
    /\ \A k \in 1..Len(p) : p[k] # "("
    /\ (p # <<>> => p[1] # "*")
    /\ \A k \in 1..(Len(p) - 1) : ~(p[k] = "*" /\ p[k + 1] = "*")

\* the pattern p matches a prefix of the text t: literals, ".", a postfix
\* "*" and a closing "$"
RECURSIVE matchHere(_, _)
matchHere(p, t) ==
    IF p = <<>> THEN TRUE
    ELSE IF Len(p) >= 2 /\ p[2] = "*"
    THEN \E k \in 0..Len(t) :
            /\ \A m \in 1..k : p[1] = "." \/ t[m] = p[1]
            /\ matchHere(SubSeq(p, 3, Len(p)), SubSeq(t, k + 1, Len(t)))
    ELSE IF p = <<"$">> THEN t = <<>>
    ELSE IF t # <<>> /\ (p[1] = "." \/ p[1] = t[1])
    THEN matchHere(Tail(p), Tail(t))
    ELSE FALSE

\* regexp.MatchString with its error dropped: a pattern that does not
\* compile reports matched = false; a match may start anywhere in the text
\* unless the pattern opens with "^"
MatchString(p, s) ==
    IF ~ValidPattern(p) THEN FALSE
    ELSE IF p # <<>> /\ p[1] = "^" THEN matchHere(Tail(p), s)
    ELSE \E j \in 0..Len(s) : matchHere(p, SubSeq(s, j + 1, Len(s)))

\* install.go:121-126: the range loop from route k on
RECURSIVE getUpstreamFrom(_, _, _, _)
getUpstreamFrom(routes, k, model, defaultBase) ==
    IF k > Len(routes) THEN [base |-> defaultBase, key |-> ""]
    ELSE IF MatchString(routes[k].Pattern, model)
    THEN [base |-> routes[k].Upstream, key |-> routes[k].AuthKey]
    ELSE getUpstreamFrom(routes, k + 1, model, defaultBase)

getUpstreamForModel_lastMatch(routes, model, defaultBase) ==
    LET hits == {k \in DOMAIN routes : MatchString(routes[k].Pattern, model)}
    IN  IF hits = {} THEN [base |-> defaultBase, key |-> ""]
        ELSE [base |-> routes[Max(hits)].Upstream, key |-> routes[Max(hits)].AuthKey]

\* install.go:117-127
getUpstreamForModel(routes, model, defaultBase) ==
    getUpstreamFrom(routes, 1, model, defaultBase)

\* the routes a table is made of: a substring pattern, an anchored one, one
\* that matches every model, one with both anchors, and two that do not
\* compile
Routes ==
    { [Pattern |-> <<"g", "p", "t">>, Upstream |-> "u-gpt", AuthKey |-> "k-gpt"],
      [Pattern |-> <<"^", "c", "l">>, Upstream |-> "u-cl", AuthKey |-> ""],
      [Pattern |-> <<".", "*">>, Upstream |-> "u-all", AuthKey |-> "k-all"],
      [Pattern |-> <<"^", "g", ".", "*", "4", "$">>, Upstream |-> "u-g4", AuthKey |-> ""],
      [Pattern |-> <<"(", "g">>, Upstream |-> "u-open", AuthKey |-> "k-open"],
      [Pattern |-> <<"*", "g">>, Upstream |-> "u-star", AuthKey |-> ""] }

RouteTables == UNION {[1..n -> Routes] : n \in 0..MaxRoutes}

Models ==
    { <<>>, <<"g", "p", "t", "4">>, <<"c", "l", "a">>, <<"x", "g", "p", "t">>,
      <<"o", "1">> }

DefaultBase == "u-default"

RouteArgs ==
    { [fn |-> "getUpstreamForModel", routes |-> t, model |-> mo,
       defaultBase |-> DefaultBase] : t \in RouteTables, mo \in Models }

\* api.go:213: the handler asks for the upstream of the target model
GetUpstream ==
    /\ fnArg.fn = "getUpstreamForModel"
    /\ ~fnDone
    /\ fnDone' = TRUE
    /\ fnResult' = getUpstreamForModel(fnArg.routes, fnArg.model, fnArg.defaultBase)
    /\ UNCHANGED <<fnArg, streamVars, dispatchVars, serverVars, raceVars>>

\* api.go:290 ranges over at most this many parts of one user message
MaxParts == 3

Quote == "\""

\* the JSON literal null
Null == <<"n", "u", "l", "l">>

\* json.Unmarshal of raw into a Go string that is empty before the call, for
\* strings without escapes: a quoted text decodes to what is between the
\* quotes, null is no error and leaves the string as it was, anything else
\* fails
UnmarshalString(raw) ==
    IF Len(raw) >= 2 /\ raw[1] = Quote /\ raw[Len(raw)] = Quote
    THEN [ok |-> TRUE, s |-> SubSeq(raw, 2, Len(raw) - 1)]
    ELSE IF raw = Null
    THEN [ok |-> TRUE, s |-> <<>>]
    ELSE [ok |-> FALSE, s |-> <<>>]

\* api.go:304-312: the content of a tool_result as a string
toolResultContent(p) ==
    IF Len(p.Content) > 0
    THEN IF UnmarshalString(p.Content).ok
         THEN UnmarshalString(p.Content).s
         ELSE p.Content
    ELSE <<>>

\* api.go:296-302: the data URL of a base64 image
imageURL(p) == <<"data:", p.Source.MediaType, ";base64,", p.Source.Data>>

OAText(t) == [Type |-> "text", Text |-> t, URL |-> <<>>]
OAImage(u) == [Type |-> "image_url", Text |-> "", URL |-> u]

ToolMessage(id, c) == [role |-> "tool", tool_call_id |-> id, content |-> c]
UserString(t) == [role |-> "user", content |-> [kind |-> "string", text |-> t]]
UserParts(ps) == [role |-> "user", content |-> [kind |-> "parts", parts |-> ps]]

\* api.go:290-319: the loop over the parts from part k on, with the messages
\* and the OpenAI parts collected so far
RECURSIVE userLoop(_, _, _, _)
userLoop(parts, k, messages, oaParts) ==
    IF k > Len(parts) THEN [messages |-> messages, oaParts |-> oaParts]
    ELSE LET p == parts[k]
         IN  CASE p.Type = "text" ->
                    userLoop(parts, k + 1, messages,
                             IF p.Text # "" THEN Append(oaParts, OAText(p.Text))
                             ELSE oaParts)
               [] p.Type = "image" ->
                    userLoop(parts, k + 1, messages,
                             IF p.HasSource /\ p.Source.Type = "base64"
                             THEN Append(oaParts, OAImage(imageURL(p)))
                             ELSE oaParts)
               [] p.Type = "tool_result" ->
                    userLoop(parts, k + 1,
                             Append(messages,
                                    ToolMessage(p.ToolUseID, toolResultContent(p))),
                             oaParts)
               [] OTHER -> userLoop(parts, k + 1, messages, oaParts)

\* api.go:288-331: case "user" of buildOpenAIMessages, from the messages
\* built so far and the parts of one Anthropic message
translateUser(messages, parts) ==
    LET r == userLoop(parts, 1, messages, <<>>)
    IN  IF Len(r.oaParts) > 0
        THEN IF Len(r.oaParts) = 1 /\ r.oaParts[1].Type = "text"
             THEN Append(r.messages, UserString(r.oaParts[1].Text))
             ELSE Append(r.messages, UserParts(r.oaParts))
        ELSE IF Len(parts) = 0
        THEN Append(r.messages, UserString(""))
        ELSE r.messages

NoSource == [Type |-> "", MediaType |-> "", Data |-> ""]

TextPart(t) ==
    [Type |-> "text", Text |-> t, HasSource |-> FALSE, Source |-> NoSource,
     ToolUseID |-> "", Content |-> <<>>]
ImagePart(kind) ==
    [Type |-> "image", Text |-> "", HasSource |-> TRUE,
     Source |-> [Type |-> kind, MediaType |-> "image/png", Data |-> "AAAA"],
     ToolUseID |-> "", Content |-> <<>>]
ToolResultPart(id, raw) ==
    [Type |-> "tool_result", Text |-> "", HasSource |-> FALSE, Source |-> NoSource,
     ToolUseID |-> id, Content |-> raw]

\* the parts of a user message: text, empty text, an inline image, an image
\* by reference, and tool results that are a string, an array and null
AnthropicParts ==
    { TextPart("hi"), TextPart(""), ImagePart("base64"), ImagePart("url"),
      ToolResultPart("t1", <<Quote, "o", "k", Quote>>),
      ToolResultPart("t2", <<"[", "1", "]">>),
      ToolResultPart("t3", Null) }

UserArgs ==
    { [fn |-> "buildOpenAIMessages", parts |-> ps] :
        ps \in UNION {[1..n -> AnthropicParts] : n \in 0..MaxParts} }

\* api.go:205, 263-331: one user message of the request is translated
BuildUserMessage ==
    /\ fnArg.fn = "buildOpenAIMessages"
    /\ ~fnDone
    /\ fnDone' = TRUE
    /\ fnResult' = translateUser(<<>>, fnArg.parts)
    /\ UNCHANGED <<fnArg, streamVars, dispatchVars, serverVars, raceVars>>

\* the client's tool_choice: absent, a string, or an object with a type, a
\* name and a function name
NoToolChoice ==
    [kind |-> "nil", str |-> "", type |-> "", name |-> "", function |-> ""]
ToolChoiceString(s) ==
    [kind |-> "string", str |-> s, type |-> "", name |-> "", function |-> ""]
ToolChoiceObject(t, n, f) ==
    [kind |-> "object", str |-> "", type |-> t, name |-> n, function |-> f]

ToolChoices ==
    { NoToolChoice,
      ToolChoiceString("auto"), ToolChoiceString("none"),
      ToolChoiceString("required"), ToolChoiceString("any"),
      ToolChoiceString("sometimes"),
      ToolChoiceObject("any", "", ""), ToolChoiceObject("tool", "f", ""),
      ToolChoiceObject("function", "", "f"), ToolChoiceObject("tool", "", ""),
      ToolChoiceObject("scheme", "f", "") }

\* api.go:223, 243-245: the tool_choice entry of oaReqMap, absent when the
\* request has none
requestToolChoice(tc) ==
    IF tc # NoToolChoice THEN [present |-> TRUE, value |-> tc]
    ELSE [present |-> FALSE, value |-> NoToolChoice]

ToolChoiceArgs == {[fn |-> "tool_choice", tc |-> tc] : tc \in ToolChoices}

\* api.go:219-247: the handler builds the request map
BuildRequestMap ==
    /\ fnArg.fn = "tool_choice"
    /\ ~fnDone
    /\ fnDone' = TRUE
    /\ fnResult' = requestToolChoice(fnArg.tc)
    /\ UNCHANGED <<fnArg, streamVars, dispatchVars, serverVars, raceVars>>

\* proxy.go:180 ranges over at most this many tool calls
MaxToolCalls == 2

\* strings.Split for a non-empty separator
RECURSIVE Split(_, _)
Split(s, sep) ==
    LET at == Index(s, sep)
    IN  IF at = -1 THEN <<s>>
        ELSE <<Slice(s, 0, at)>> \o Split(Slice(s, at + Len(sep), Len(s)), sep)

TextBlock(t) == [type |-> "text", text |-> t, id |-> "", name |-> "", input |-> ""]
ThinkingBlock(t) == [type |-> "thinking", text |-> t, id |-> "", name |-> "", input |-> ""]
ToolUseBlock(id, name, args) ==
    [type |-> "tool_use", text |-> <<>>, id |-> id, name |-> name, input |-> args]

\* utils.go:42-54: the blocks of one part that followed a "<think>"
thinkPart(part) ==
    LET subs == Split(part, ThinkClose)
    IN  IF Len(subs) = 2
        THEN <<ThinkingBlock(subs[1])>>
             \o (IF subs[2] # <<>> THEN <<TextBlock(subs[2])>> ELSE <<>>)
        ELSE <<ThinkingBlock(part)>>

\* utils.go:34-55: the loop over the parts from part k on
RECURSIVE parseParts(_, _)
parseParts(parts, k) ==
    IF k > Len(parts) THEN <<>>
    ELSE IF k = 1
    THEN (IF parts[1] # <<>> THEN <<TextBlock(parts[1])>> ELSE <<>>)
         \o parseParts(parts, 2)
    ELSE thinkPart(parts[k]) \o parseParts(parts, k + 1)

\* utils.go:29-57
parseContentWithThinkTags(raw) == parseParts(Split(raw, ThinkOpen), 1)

\* proxy.go:180-191: one tool_use block per tool call, "{}" for no arguments
toolUseBlocks(toolCalls) ==
    [k \in 1..Len(toolCalls) |->
        ToolUseBlock(toolCalls[k].ID, toolCalls[k].Name,
                     IF toolCalls[k].Arguments # "" THEN toolCalls[k].Arguments
                     ELSE "{}")]

assembleBlocks_textFirst(message) ==
    LET blocks ==
            parseContentWithThinkTags(message.Content)
            \o (IF message.ReasoningContent # <<>>
                THEN <<ThinkingBlock(message.ReasoningContent)>> ELSE <<>>)
            \o toolUseBlocks(message.ToolCalls)
    IN  IF Len(blocks) = 0 THEN <<TextBlock(<<>>)>> ELSE blocks

\* proxy.go:164-196: the content blocks of the non-streaming response
assembleBlocks(message) ==
    LET blocks ==
            (IF message.ReasoningContent # <<>>
             THEN <<ThinkingBlock(message.ReasoningContent)>> ELSE <<>>)
            \o parseContentWithThinkTags(message.Content)
            \o toolUseBlocks(message.ToolCalls)
    IN  IF Len(blocks) = 0 THEN <<TextBlock(<<>>)>> ELSE blocks

\* the upstream's message: its reasoning, its content with and without
\* think tags, closed, unclosed and closed twice, and its tool calls
Reasonings == {<<>>, <<"R">>}

Contents ==
    { <<>>, <<"T">>,
      ThinkOpen \o <<"x">> \o ThinkClose \o <<"y">>,
      <<"a">> \o ThinkOpen \o <<"x">> \o ThinkClose,
      ThinkOpen \o <<"x">>,
      ThinkOpen \o <<"x">> \o ThinkClose \o <<"y">> \o ThinkClose \o <<"z">>,
      <<"y">> \o ThinkClose }

ToolCalls ==
    { [ID |-> "call_1", Name |-> "f", Arguments |-> ""],
      [ID |-> "call_2", Name |-> "g", Arguments |-> "{\"a\":1}"] }

AssembleArgs ==
    { [fn |-> "assemble",
       message |-> [ReasoningContent |-> r, Content |-> c, ToolCalls |-> tcs]] :
        r \in Reasonings, c \in Contents,
        tcs \in UNION {[1..n -> ToolCalls] : n \in 0..MaxToolCalls} }

\* proxy.go:152-217: the upstream's answer is turned into the response
Assemble ==
    /\ fnArg.fn = "assemble"
    /\ ~fnDone
    /\ fnDone' = TRUE
    /\ fnResult' = assembleBlocks(fnArg.message)
    /\ UNCHANGED <<fnArg, streamVars, dispatchVars, serverVars, raceVars>>

\* contents for the parser alone: those of the assembly, a "<think>" inside an
\* unclosed "<think>", two closed ones in a row, and text around them
ParseContents ==
    Contents \cup
    { ThinkOpen \o <<"a">> \o ThinkOpen \o <<"b">>,
      ThinkOpen \o <<"x">> \o ThinkClose \o ThinkOpen \o <<"y">> \o ThinkClose \o <<"z">>,
      <<"p">> \o ThinkOpen \o <<"x">> \o ThinkClose \o <<"y">> \o ThinkOpen \o <<"u">>,
      ThinkOpen \o ThinkClose,
      ThinkOpen }

ParseArgs == {[fn |-> "parseContentWithThinkTags", raw |-> c] : c \in ParseContents}

\* proxy.go:176-177: the content of the upstream's message is parsed
ParseContent ==
    /\ fnArg.fn = "parseContentWithThinkTags"
    /\ ~fnDone
    /\ fnDone' = TRUE
    /\ fnResult' = parseContentWithThinkTags(fnArg.raw)
    /\ UNCHANGED <<fnArg, streamVars, dispatchVars, serverVars, raceVars>>

\* one application of one translation function
InitTranslate ==
    /\ ProxyIdle
    /\ build = "part_002"
    /\ AuthIdle
    /\ LimiterIdle
    /\ fnArg \in RouteArgs \cup UserArgs \cup ToolChoiceArgs \cup AssembleArgs
                \cup ParseArgs
    /\ fnDone = FALSE
    /\ fnResult = <<>>
    /\ RaceIdle

NextTranslate ==
    \/ GetUpstream
    \/ BuildUserMessage
    \/ BuildRequestMap
    \/ Assemble
    \/ ParseContent

SpecTranslate == InitTranslate /\ [][NextTranslate]_vars

----------------------------------------------------------------------------
(* Concurrent calls of validateAPIKey for one credential (src/auth.go) *)

\* goroutines inside validateAPIKey at the same time
MaxCallers == 2

\* calls of validateAPIKey in all, begun or ended
MaxCalls == 6

\* active credentials with a rate limit
RaceKeys == {"alice", "dave"}

\* a goroutine about to call validateAPIKey(key)
Caller(key) == [pc |-> "idle", key |-> key, rl |-> 0, made |-> FALSE, ok |-> FALSE]

\* a call of Allow that has returned: whether the goroutine that called made
\* the limiter, the object, the time, the tokens at entry, after the refill
\* and at exit, and the result
Allowed(c, obj, t, rl, a) ==
    [maker |-> callers[c].made, obj |-> obj, t |-> t, had |-> rl.tokens,
     filled |-> refill(rl, t).tokens, left |-> a.rl.tokens, ok |-> a.ok]

\* auth.go:92-108  the reads under apiKeysMutex and the early returns
EnterValidate(c) ==
    /\ callers[c].pc = "idle"
    /\ LET key     == callers[c].key
           hasKeys == DOMAIN apiKeys # {}
           exists  == key \in DOMAIN apiKeys
       IN  callers' = [callers EXCEPT ![c] =
              IF ~hasKeys THEN [@ EXCEPT !.pc = "done", !.ok = TRUE]
              ELSE IF ~exists THEN [@ EXCEPT !.pc = "done", !.ok = FALSE]
              ELSE IF ~apiKeys[key].Active THEN [@ EXCEPT !.pc = "done", !.ok = FALSE]
              ELSE IF apiKeys[key].RateLimit > 0 THEN [@ EXCEPT !.pc = "lookup"]
              ELSE [@ EXCEPT !.pc = "done", !.ok = TRUE]]
    /\ UNCHANGED <<limiterObjs, keyPtrs, allowLog>>
    /\ UNCHANGED <<streamVars, dispatchVars, serverVars, translateVars>>

\* a lookup that makes a limiter of its own whatever the map holds
LookupLimiter_alwaysNew(c) ==
    /\ callers[c].pc = "lookup"
    /\ LET key == callers[c].key
           obj == Len(limiterObjs) + 1
       IN  /\ limiterObjs' = Append(limiterObjs,
                                    newRateLimiter(apiKeys[key].RateLimit, now))
           /\ keyPtrs' = [k \in DOMAIN keyPtrs \cup {key} |->
                             IF k = key THEN obj ELSE keyPtrs[k]]
           /\ callers' = [callers EXCEPT ![c] =
                             [@ EXCEPT !.pc = "allow", !.rl = obj, !.made = TRUE]]
    /\ UNCHANGED allowLog
    /\ UNCHANGED <<streamVars, dispatchVars, serverVars, translateVars>>

\* auth.go:112-118  the section under limitersMu: the limiter of the key,
\* made and stored when the map has none
LookupLimiter(c) ==
    /\ callers[c].pc = "lookup"
    /\ LET key == callers[c].key
       IN  IF key \in DOMAIN keyPtrs
           THEN /\ callers' = [callers EXCEPT ![c] =
                                  [@ EXCEPT !.pc = "allow", !.rl = keyPtrs[key]]]
                /\ UNCHANGED <<limiterObjs, keyPtrs>>
           ELSE LET obj == Len(limiterObjs) + 1
                IN  /\ limiterObjs' = Append(limiterObjs,
                                  newRateLimiter(apiKeys[key].RateLimit, now))
                    /\ keyPtrs' = [k \in DOMAIN keyPtrs \cup {key} |->
                                      IF k = key THEN obj ELSE keyPtrs[k]]
                    /\ callers' = [callers EXCEPT ![c] =
                          [@ EXCEPT !.pc = "allow", !.rl = obj, !.made = TRUE]]
    /\ UNCHANGED allowLog
    /\ UNCHANGED <<streamVars, dispatchVars, serverVars, translateVars>>

\* auth.go:120-125  limiter.Allow(), the section under rl.mu, and the return
AllowCall(c) ==
    /\ callers[c].pc = "allow"
    /\ LET obj == callers[c].rl
           rl  == limiterObjs[obj]
           a   == Allow(rl, now)
       IN  /\ limiterObjs' = [limiterObjs EXCEPT ![obj] = a.rl]
           /\ callers' = [callers EXCEPT ![c] = [@ EXCEPT !.pc = "done", !.ok = a.ok]]
           /\ allowLog' = Append(allowLog, Allowed(c, obj, now, rl, a))
    /\ UNCHANGED keyPtrs
    /\ UNCHANGED <<streamVars, dispatchVars, serverVars, translateVars>>

\* the calls of validateAPIKey begun so far
CallsBegun ==
    Len(allowLog) + Cardinality({c \in DOMAIN callers : callers[c].pc # "done"})

\* api.go:170  the goroutine of the next request with the same
\* credential calls validateAPIKey: the key's limiter is looked up afresh
NextRequest(c) ==
    /\ callers[c].pc = "done"
    /\ CallsBegun < MaxCalls
    /\ callers' = [callers EXCEPT ![c] = [@ EXCEPT !.pc = "idle", !.rl = 0, !.ok = FALSE]]
    /\ UNCHANGED <<limiterObjs, keyPtrs, allowLog>>
    /\ UNCHANGED <<streamVars, dispatchVars, serverVars, translateVars>>

\* keys.json is loaded and MaxCallers requests with one credential arrive at
\* once; each goroutine serves further requests with that credential, up to
\* MaxCalls calls in all
InitRace ==
    /\ ProxyIdle
    /\ build = "part_002"
    /\ apiKeys = KeyTable
    /\ keyLimiters = NoLimiters
    /\ now = 0
    /\ reqPc = "idle"
    /\ reqKey = ""
    /\ authStatus = 0
    /\ lastCall = NoCall
    /\ rateLimitedCount = 0
    /\ rateLimitRejections = 0
    /\ LimiterIdle
    /\ TranslateIdle
    /\ \E key \in RaceKeys : callers = [c \in 1..MaxCallers |-> Caller(key)]
    /\ limiterObjs = <<>>
    /\ keyPtrs = <<>>
    /\ allowLog = <<>>

NextRace ==
    \/ \E c \in 1..MaxCallers : EnterValidate(c)
    \/ \E c \in 1..MaxCallers : LookupLimiter(c)
    \/ \E c \in 1..MaxCallers : AllowCall(c)
    \/ \E c \in 1..MaxCallers : NextRequest(c)
    \/ \E d \in Delays : Tick(d)

SpecRace == InitRace /\ [][NextRace]_vars

\* C23: getUpstreamForModel answers with the first route, in table order,
\* whose pattern compiles and matches the model; with no such route (an empty
\* table included) it answers with the default base and an empty key; a
\* pattern that does not compile is passed over.
C23_FirstMatchingRoute ==
    (fnDone /\ fnArg.fn = "getUpstreamForModel") =>
        LET routes == fnArg.routes
            hits == {k \in DOMAIN routes :
                        /\ ValidPattern(routes[k].Pattern)
                        /\ MatchString(routes[k].Pattern, fnArg.model)}
        IN  IF hits = {}
            THEN fnResult = [base |-> fnArg.defaultBase, key |-> ""]
            ELSE fnResult = [base |-> routes[Min(hits)].Upstream,
                             key |-> routes[Min(hits)].AuthKey]

\* an invalid pattern first, a matching route after it, and the latter is returned
C23_Witness ==
    /\ fnDone
    /\ fnArg.fn = "getUpstreamForModel"
    /\ Len(fnArg.routes) = 2
    /\ ~ValidPattern(fnArg.routes[1].Pattern)
    /\ fnArg.routes[2].Pattern = <<"^", "g", ".", "*", "4", "$">>
    /\ fnResult = [base |-> "u-g4", key |-> ""]

IsTool(msg) == msg.role = "tool"
IsUser(msg) == msg.role = "user"

\* C24: in the messages built from one user message, every tool_result part
\* has its own tool message, in part order, and every tool message stands
\* after the user message, none before it.
C24_ToolAfterUser ==
    (fnDone /\ fnArg.fn = "buildOpenAIMessages") =>
        LET results == Select(fnArg.parts, LAMBDA p : p.Type = "tool_result")
            tools == Select(fnResult, IsTool)
        IN  /\ Len(tools) = Len(results)
            /\ \A k \in 1..Len(tools) :
                    tools[k].tool_call_id = results[k].ToolUseID
            /\ \A a, b \in 1..Len(fnResult) :
                    (IsUser(fnResult[a]) /\ IsTool(fnResult[b])) => a < b

\* what the normalization makes of a tool_choice
Normalized(tc) ==
    CASE tc.kind = "string" /\ tc.str = "any" -> ToolChoiceString("required")
      [] tc.kind = "object" /\ tc.type = "any" -> ToolChoiceString("required")
      [] tc.kind = "object" /\ tc.type = "tool" /\ tc.name # "" ->
            ToolChoiceObject("function", "", tc.name)
      [] OTHER -> tc

\* C25: the tool_choice of the upstream body is the normalized form of the
\* client's: "auto", "none", "required" as they are, "any" and {type:"any"}
\* as "required", {type:"tool", name:f} as {type:"function",
\* function:{name:f}}, any other shape as it is.
C25_ToolChoiceNormalized ==
    (fnDone /\ fnArg.fn = "tool_choice" /\ fnResult.present) =>
        fnResult.value = Normalized(fnArg.tc)

\* C26: the content of the non-streaming response is, in this order, a
\* thinking block for a non-empty reasoning_content, the blocks parsed from
\* the content, one tool_use block per tool call, and an empty text block
\* exactly when there is nothing else; it is never empty; a non-empty
\* reasoning R with a non-empty content T free of think tags gives
\* [thinking(R), text(T)].
C26_AssemblyOrder ==
    (fnDone /\ fnArg.fn = "assemble") =>
        LET msg == fnArg.message
            thinking == IF msg.ReasoningContent # <<>>
                        THEN <<ThinkingBlock(msg.ReasoningContent)>> ELSE <<>>
            parsed == parseContentWithThinkTags(msg.Content)
            n == Len(thinking) + Len(parsed)
            others == n + Len(msg.ToolCalls)
        IN  /\ Len(fnResult) > 0
            /\ others > 0 =>
                    /\ Len(fnResult) = others
                    /\ SubSeq(fnResult, 1, Len(thinking)) = thinking
                    /\ SubSeq(fnResult, Len(thinking) + 1, n) = parsed
                    /\ \A k \in 1..Len(msg.ToolCalls) :
                            /\ fnResult[n + k].type = "tool_use"
                            /\ fnResult[n + k].id = msg.ToolCalls[k].ID
                            /\ fnResult[n + k].name = msg.ToolCalls[k].Name
                            /\ fnResult[n + k].input =
                                    (IF msg.ToolCalls[k].Arguments = "" THEN "{}"
                                     ELSE msg.ToolCalls[k].Arguments)
            /\ others = 0 => fnResult = <<TextBlock(<<>>)>>
            /\ \A k \in 1..Len(fnResult) :
                    fnResult[k] = TextBlock(<<>>) => others = 0
            /\ (/\ msg.ReasoningContent # <<>>
                /\ msg.Content # <<>>
                /\ Index(msg.Content, ThinkOpen) = -1
                /\ msg.ToolCalls = <<>>)
               => fnResult = <<ThinkingBlock(msg.ReasoningContent),
                               TextBlock(msg.Content)>>

\* reasoning R and content T came back as [thinking(R), text(T)]
C26_Witness ==
    /\ fnDone
    /\ fnArg.fn = "assemble"
    /\ fnArg.message.ReasoningContent = <<"R">>
    /\ fnArg.message.Content = <<"T">>
    /\ fnArg.message.ToolCalls = <<>>
    /\ fnResult = <<ThinkingBlock(<<"R">>), TextBlock(<<"T">>)>>

----------------------------------------------------------------------------
(* C31 *)

\* the line that a step has read
LineRead == IF Len(inp') = Len(inp) + 1 THEN inp'[Len(inp')] ELSE Line("none", NoChunk)

\* C31: a line without the "data: " prefix, and a data line that does not
\* parse as a chunk, writes no event and leaves the block type, the block
\* index, startedMessage, the content buffer, the tool index, hasToolUse and
\* lastUsage as they were; the loop goes on reading.
C31_SkippedLineChangesNothing ==
    [][LineRead.kind = "skip" => (State' = State /\ pc' = "reading")]_vars

\* an open text block and a held-back "<" survived a skipped line, and the
\* next chunk went on from them
C31_Witness ==
    /\ Len(inp) = 3
    /\ inp[1].chunk.usage = Usage(1, 2)
    /\ inp[1].chunk.content = <<"B", "<">>
    /\ inp[2].kind = "skip"
    /\ Segment(2) = <<>>
    /\ inp[3] = Line("chunk", ToolChunk(<<ToolXA>>))
    /\ contentBuffer = <<"<">>
    /\ lastUsage = [input |-> 1, output |-> 2]
    /\ currentToolIndex = 0

----------------------------------------------------------------------------
(* C32 *)

\* the lines read so far that parsed as a chunk and carried a usage object
UsageLines == {i \in 1..Len(inp) : inp[i].kind = "chunk" /\ inp[i].chunk.usage.present}

\* C32: the output_tokens of the final message_delta is the completion token
\* count of the last usage object among the chunks read before [DONE], those
\* without choices included, and 0 when no chunk carried one.
C32_FinalUsage ==
    pc = "done" =>
        \A p \in Positions(w, IsMessageDelta) :
            w[p].output_tokens =
                (IF UsageLines = {} THEN 0
                 ELSE inp[Max(UsageLines)].chunk.usage.completion_tokens)

\* a usage of 2 in a chunk with choices, then a usage of 5 in a chunk without
\* choices that wrote nothing, and the trailer reports 5
C32_Witness ==
    /\ pc = "done"
    /\ Len(inp) = 3
    /\ inp[1].chunk.usage = Usage(1, 2)
    /\ inp[2] = Line("chunk", UsageChunk(3, 5))
    /\ Segment(2) = <<>>
    /\ \E p \in Positions(w, IsMessageDelta) : w[p].output_tokens = 5

----------------------------------------------------------------------------
(* C33 *)

\* C33: after the content pass of every chunk the content buffer holds no
\* complete "<think>" and no complete "</think>", and it is empty or a
\* suffix that starts with "<" and is at most 20 bytes long.
C33_BufferHoldsNoTag ==
    /\ Index(contentBuffer, ThinkOpen) = -1
    /\ Index(contentBuffer, ThinkClose) = -1
    /\ \/ contentBuffer = <<>>
       \/ contentBuffer[1] = "<" /\ Len(contentBuffer) <= Window

\* a buffer longer than the window left the first bytes of a tag behind, and
\* a "<" with a window of text after it was let go
C33_Witness ==
    /\ Len(inp) = 2
    /\ inp[1] = Line("chunk", ContentChunk(LongFree))
    /\ inp[2] = Line("chunk", ContentChunk(LongHeld))
    /\ contentBuffer = <<"<", "t", "h">>

----------------------------------------------------------------------------
(* C34 *)

IsTextStart(e) == IsStart(e) /\ e.kind = "text"

\* C34: no content_block_delta carries an empty fragment; a text block is
\* opened only right before a non-empty text_delta of its index, so a text
\* block never stays without a delta, and the "</think>" that closes a
\* thinking block opens nothing by itself.
C34_NoEmptyDeltaTextOnDemand ==
    /\ \A p \in Positions(w, IsDelta) : w[p].text # <<>>
    /\ \A p \in Positions(w, IsTextStart) :
            /\ p < Len(w)
            /\ IsDelta(w[p + 1])
            /\ w[p + 1].kind = "text_delta"
            /\ w[p + 1].index = w[p].index
            /\ w[p + 1].text # <<>>

\* a thinking block was closed by "</think>", nothing followed, and the
\* stream ended without a text block
C34_Witness ==
    /\ pc = "done"
    /\ Len(inp) = 3
    /\ inp[1] = Line("chunk", ContentChunk(ThinkOpen \o <<"t">>))
    /\ inp[2] = Line("chunk", ContentChunk(ThinkClose))
    /\ Count(w, IsTextStart) = 0
    /\ \E p \in 1..(Len(w) - 1) : IsStop(w[p]) /\ IsMessageDelta(w[p + 1])

----------------------------------------------------------------------------
(* C36 *)

\* the block type that a delta type belongs to
BlockOfDelta(dtype) ==
    CASE dtype = "thinking_delta" -> "thinking"
      [] dtype = "text_delta" -> "text"
      [] dtype = "input_json_delta" -> "tool_use"
      [] OTHER -> "none"

\* C36: every content_block_delta has an index >= 0, stands after the
\* content_block_start of its index and before the content_block_stop of
\* that index, and has the delta type of that block.
C36_DeltaInsideItsBlock ==
    \A p \in Positions(w, IsDelta) :
        /\ w[p].index >= 0
        /\ \E q \in 1..(p - 1) :
                /\ IsStart(w[q])
                /\ w[q].index = w[p].index
                /\ w[q].kind = BlockOfDelta(w[p].kind)
        /\ \A q \in 1..(p - 1) : ~(IsStop(w[q]) /\ w[q].index = w[p].index)

----------------------------------------------------------------------------
(* C37 *)

\* C37: message_delta and message_stop are written only after a
\* message_start of the same stream.
C37_TrailerAfterMessageStart ==
    \A p \in 1..Len(w) :
        (IsMessageDelta(w[p]) \/ IsMessageStop(w[p])) =>
            \E q \in 1..(p - 1) : IsMessageStart(w[q])

----------------------------------------------------------------------------
(* C35 *)

\* the blocks of the text that follows a "<think>", read tag by tag: up to
\* the next "</think>" it is thinking, from there to the next "<think>" it is
\* text, and without a "</think>" all of it is thinking
RECURSIVE BlocksAfterOpen(_)
BlocksAfterOpen(rest) ==
    LET close == Index(rest, ThinkClose)
    IN  IF close = -1 THEN <<ThinkingBlock(rest)>>
        ELSE LET after == Slice(rest, close + Len(ThinkClose), Len(rest))
                 open  == Index(after, ThinkOpen)
                 y     == IF open = -1 THEN after ELSE Slice(after, 0, open)
             IN  <<ThinkingBlock(Slice(rest, 0, close))>>
                 \o (IF y # <<>> THEN <<TextBlock(y)>> ELSE <<>>)
                 \o (IF open = -1 THEN <<>>
                     ELSE BlocksAfterOpen(Slice(after, open + Len(ThinkOpen),
                                                Len(after))))

\* the blocks of a content read tag by tag
BlocksByTags(raw) ==
    LET open == Index(raw, ThinkOpen)
    IN  IF open = -1 THEN (IF raw # <<>> THEN <<TextBlock(raw)>> ELSE <<>>)
        ELSE (IF open > 0 THEN <<TextBlock(Slice(raw, 0, open))>> ELSE <<>>)
             \o BlocksAfterOpen(Slice(raw, open + Len(ThinkOpen), Len(raw)))

\* C35: for any content, the non-empty prefix before the first
\* "<think>" is a text block, each "<think>X</think>Y" is thinking(X) and,
\* for a non-empty Y, text(Y), an unclosed "<think>" makes the remainder one
\* thinking block, and the blocks keep the order of the input.
C35_ParsedByTags ==
    (fnDone /\ fnArg.fn = "parseContentWithThinkTags") =>
        fnResult = BlocksByTags(fnArg.raw)

----------------------------------------------------------------------------
(* C38 *)

\* the handler's check of the request that the middleware passed on returns
HandlerStep == reqPc = "hAllow" /\ reqPc' # "hAllow"

\* C38: a request takes one token of its credential's bucket on its way
\* through the middleware and the handler: when the middleware let it pass
\* with a token of the bucket, the handler admits it and takes no second one.
C38_OneTokenPerRequest ==
    [][(HandlerStep /\ lastCall.called /\ lastCall.allowed) =>
            /\ reqPc' = "admitted"
            /\ ~(lastCall'.called /\ lastCall'.allowed)]_vars

----------------------------------------------------------------------------
(* C40 *)

\* the refill tasks that have not returned
LiveRefillers == {id \in DOMAIN chans : chans[id].refiller \in {"running", "stopping"}}

\* a request that waits is admitted or answered 499 in the end
WaitEnds == (lpc = "waiting") ~> (lpc \in {"admitted", "rejected"})

\* C40: with a fair refill task a request that waits for a token is in the
\* end admitted or answered 499, also when setupRateLimiter replaces the
\* limiter during the wait; after any calls of setupRateLimiter at most one
\* refill task runs, and it feeds the current channel.
C40_WaitEndsOneRefiller ==
    /\ WaitEnds
    /\ [](/\ Cardinality(LiveRefillers) <= 1
          /\ \A id \in LiveRefillers : id = limiter)


\* the calls of Allow that returned true, in order
Grants == SelectSeq(allowLog, LAMBDA e : e.ok)

\* every goroutine past the lookup holds the one limiter of its credential
OneLimiterPerKey ==
    /\ Len(limiterObjs) <= 1
    /\ \A c \in DOMAIN callers :
          callers[c].pc \in {"allow", "done"} =>
             /\ callers[c].key \in DOMAIN keyPtrs
             /\ callers[c].rl = keyPtrs[callers[c].key]
    /\ Cardinality({c \in DOMAIN callers : callers[c].made}) <= 1

\* the calls before call k on the same limiter
EarlierCalls(k) == {j \in 1..(k - 1) : allowLog[j].obj = allowLog[k].obj}

\* each call of Allow starts from the tokens the call before it left, grants
\* only from a positive count and takes exactly one token when it grants
NoTokenTwice ==
    /\ \A k \in DOMAIN allowLog :
          LET e == allowLog[k]
          IN  /\ e.had = IF EarlierCalls(k) = {} THEN limiterObjs[e.obj].max
                         ELSE allowLog[Max(EarlierCalls(k))].left
              /\ e.ok <=> e.filled > 0
              /\ e.left = IF e.ok THEN e.filled - 1 ELSE e.filled
              /\ e.left >= 0
    /\ \A o \in DOMAIN limiterObjs :
          LET calls == {k \in DOMAIN allowLog : allowLog[k].obj = o}
          IN  limiterObjs[o].tokens =
                 IF calls = {} THEN limiterObjs[o].max
                 ELSE allowLog[Max(calls)].left

\* the admissions between two admissions exceed max by at most extra tokens
\* for every whole interval between the two, and slack more
WindowBound(slack) ==
    \A i \in DOMAIN Grants : \A j \in i..Len(Grants) :
       LET rl == limiterObjs[Grants[i].obj]
       IN  j - i + 1 <= rl.max + intervals(Grants[j].t - Grants[i].t, rl.rate) + slack

\* C39: under every interleaving of concurrent validateAPIKey calls for one
\* active credential, exactly one RateLimiter is made and used, no token is
\* granted twice, and the calls admitted in any window of length T number at
\* most max + floor(T / interval).
C39_OneLimiterWindowFloor ==
    /\ OneLimiterPerKey
    /\ NoTokenTwice
    /\ WindowBound(0)

\* C39, amended: one RateLimiter, no token granted twice, and the calls
\* admitted in any window of length T number at most
\* max + floor(T / interval) + 1.
C39_OneLimiterWindowPlusOne ==
    /\ OneLimiterPerKey
    /\ NoTokenTwice
    /\ WindowBound(1)

\* interleaved calls share the limiter one of them made, the maker is not
\* the first to reach Allow, a call is turned away, and a window holds
\* max + floor(T / interval) + 1 admissions, more than max + 1
C39_Witness ==
    /\ Len(limiterObjs) = 1
    /\ allowLog # <<>>
    /\ ~allowLog[1].maker
    /\ \E k \in DOMAIN allowLog : ~allowLog[k].ok
    /\ \E i \in DOMAIN Grants : \E j \in i..Len(Grants) :
          LET rl == limiterObjs[Grants[i].obj]
              n  == intervals(Grants[j].t - Grants[i].t, rl.rate)
          IN  /\ n > 0
              /\ j - i + 1 = rl.max + n + 1

====
